---- MODULE Spec2Model ----
(***************************************************************************)
(* WhatsApp group listener with Firebase App Distribution dispatch.        *)
(* State machine of src/unnamed/part_001 (the bot with group filtering and *)
(* distribution requests).                                                 *)
(*                                                                         *)
(* JavaScript strings are modelled as sequences of one-character strings,  *)
(* so that toLowerCase, trim and the regular expression of the parser are  *)
(* computed character by character.  null, undefined and "" are all falsy  *)
(* in the code's tests (!targetGroup.id, if (targetGroup.name)); the empty *)
(* sequence stands for them.  An optional boolean of the config file is    *)
(* one of "true", "false", "undefined".  Where undefined is not merely     *)
(* tested but used as a string (the text handed to the parser), it is the  *)
(* value Undefined.  A config file that parses has the documented format   *)
(* (a targetGroups array and a settings object), except FileNoArray.       *)
(*                                                                         *)
(* The environment: WhatsApp's answers about a group or a sender are       *)
(* functions of the group and the sender (Subject, Contacts), a lookup may *)
(* fail; the Firebase key file named by the config is on disk or not       *)
(* (KeyFiles); every file write and every HTTP call may fail.              *)
(***************************************************************************)
EXTENDS Integers, Sequences, FiniteSets, TLC

VARIABLES
    config,         \* let config (part_001:16): the in-memory configuration
    configFile,     \* contents of ./config.json: "absent", "malformed" or a config
    pendingWrites,  \* saveConfigAsync calls in flight: the serialized snapshots
    lastFilter,     \* the latest shouldMonitorGroup call: arguments, config before, result
    memoized,       \* <<index, groupId, groupName>> of the calls that set an entry's id
    input,          \* the text handed to parseDistributionRequest called directly
    parsed,         \* and the value it returned
    firebaseApp,    \* let firebaseApp (part_001:17): TRUE once admin.initializeApp succeeded
    boot,           \* where the running startWhatsAppBot call stands
    connection,     \* state of the latest socket
    timer,          \* a setTimeout(() => startWhatsAppBot(), 3000) is pending
    reconnects,     \* startWhatsAppBot calls made by the timer
    closes,         \* connection.update events with 'close' that were no logout
    handlers,       \* the messages.upsert callbacks: where each stands in its batch
    logFile,        \* contents of logs/messages-<today>.json
    discoveredGroups,   \* global.discoveredGroups
    filteredGroups,     \* global.filteredGroups
    announced,      \* console: the discovery announcements printed, per group id
    noticed,        \* console: the "Filtering out message" notices printed, per group id
    inbound             \* the batches the connection delivers in this run

cfgVars == <<config, configFile, pendingWrites, lastFilter, memoized>>
parseVars == <<input, parsed>>
botVars == <<firebaseApp, boot, connection, timer, reconnects, closes>>
msgVars == <<handlers, logFile, discoveredGroups, filteredGroups, announced, noticed,
            inbound>>
vars == <<cfgVars, parseVars, botVars, msgVars>>

----------------------------------------------------------------------------
(* Strings *)

UpperCase == <<"A","B","C","D","E","F","G","H","I","J","K","L","M",
               "N","O","P","Q","R","S","T","U","V","W","X","Y","Z">>
LowerCase == <<"a","b","c","d","e","f","g","h","i","j","k","l","m",
               "n","o","p","q","r","s","t","u","v","w","x","y","z">>
Digits == {"0","1","2","3","4","5","6","7","8","9"}

Range(s) == {s[i] : i \in 1..Len(s)}

UpperLetters == Range(UpperCase)
LowerLetters == Range(LowerCase)
Letters == UpperLetters \cup LowerLetters

LowerOf == [c \in UpperLetters |->
               LowerCase[CHOOSE i \in 1..Len(UpperCase) : UpperCase[i] = c]]

LowerChar(c) == IF c \in UpperLetters THEN LowerOf[c] ELSE c

\* the sequences over S of length at most n
RECURSIVE SeqsUpTo(_, _)
SeqsUpTo(S, n) ==
    IF n = 0 THEN {<<>>}
    ELSE LET shorter == SeqsUpTo(S, n - 1)
         IN  shorter \cup { Append(s, x) : s \in shorter, x \in S }

\* String.prototype.toLowerCase
ToLowerCase(s) == [i \in 1..Len(s) |-> LowerChar(s[i])]

\* JavaScript truthiness of a string-or-null value
Truthy(s) == s # <<>>

NoId == <<>>

\* "Team Chat", "team chat", group ids "1@g.us", "2@g.us"
TeamChat == <<"T","e","a","m"," ","C","h","a","t">>
teamchat == <<"t","e","a","m"," ","c","h","a","t">>
G1 == <<"1","@","g",".","u","s">>
G2 == <<"2","@","g",".","u","s">>

----------------------------------------------------------------------------
(* Configuration *)

\* The default config of loadConfig (both the absent-file and the error branch)
\* paths of service account key files; KeyFiles are the ones on disk that
\* admin.credential.cert accepts
DefaultKeyPath == <<".","/","k">>
KeyPath == <<"k">>
KeyFiles == {KeyPath}

DefaultConfig ==
    [ targetGroups |-> <<>>,
      settings |-> [ logAllGroupsIfEmpty |-> "true",
                     caseSensitiveGroupNames |-> "false",
                     discoveryMode |-> "false" ],
      firebase |-> [ serviceAccountKeyPath |-> DefaultKeyPath,
                     androidAppId |-> <<"1",":","a">>, iosAppId |-> <<"1",":","i">> ] ]

OptBool == {"true", "false", "undefined"}

----------------------------------------------------------------------------
(* Group Filter: shouldMonitorGroup *)

\* group.enabled !== false
IsEnabledAlways(group) == TRUE
IsEnabled(group) == group.enabled # "false"

\* config.targetGroups.filter(group => group.enabled !== false), as the
\* indices of the kept entries in list order (the filter keeps the objects,
\* so an assignment to targetGroup.id changes config.targetGroups)
RECURSIVE KeepEnabled(_, _)
KeepEnabled(targetGroups, i) ==
    IF i > Len(targetGroups) THEN <<>>
    ELSE IF IsEnabled(targetGroups[i])
         THEN <<i>> \o KeepEnabled(targetGroups, i + 1)
         ELSE KeepEnabled(targetGroups, i + 1)

EnabledGroups(cfg) == KeepEnabled(cfg.targetGroups, 1)

\* config.settings.logAllGroupsIfEmpty !== false
LogAllGroupsIfEmptyAlways(cfg) == TRUE
LogAllGroupsIfEmptyStrict(cfg) == cfg.settings.logAllGroupsIfEmpty = "true"
LogAllGroupsIfEmpty(cfg) == cfg.settings.logAllGroupsIfEmpty # "false"

\* targetGroup.id && targetGroup.id === groupId
IdMatches(targetGroup, groupId) ==
    Truthy(targetGroup.id) /\ targetGroup.id = groupId

\* the ternaries on config.settings.caseSensitiveGroupNames and the
\* comparison targetName === currentName
CaseSensitive(cfg) == cfg.settings.caseSensitiveGroupNames = "true"

NameMatchesExact(cfg, targetGroup, groupName) ==
    Truthy(targetGroup.name) /\ targetGroup.name = groupName
NameMatchesIfNoId(cfg, targetGroup, groupName) ==
    /\ ~Truthy(targetGroup.id)
    /\ Truthy(targetGroup.name)
    /\ LET targetName == IF CaseSensitive(cfg) THEN targetGroup.name
                         ELSE ToLowerCase(targetGroup.name)
           currentName == IF CaseSensitive(cfg) THEN groupName
                          ELSE ToLowerCase(groupName)
       IN  targetName = currentName
NameMatches(cfg, targetGroup, groupName) ==
    /\ Truthy(targetGroup.name)
    /\ LET targetName == IF CaseSensitive(cfg) THEN targetGroup.name
                         ELSE ToLowerCase(targetGroup.name)
           currentName == IF CaseSensitive(cfg) THEN groupName
                          ELSE ToLowerCase(groupName)
       IN  targetName = currentName

\* if (!targetGroup.id) { targetGroup.id = groupId; saveConfigAsync(); }
\* saved counts the saveConfigAsync calls made
Memoize(cfg, i, groupId) ==
    IF ~Truthy(cfg.targetGroups[i].id)
    THEN [ ret |-> TRUE,
           config |-> [cfg EXCEPT !.targetGroups[i].id = groupId],
           saved |-> 1 ]
    ELSE [ ret |-> TRUE, config |-> cfg, saved |-> 0 ]

\* for (const targetGroup of enabledGroups) { ... } return false
RECURSIVE ScanGroups(_, _, _, _)
ScanGroups(cfg, enabledGroups, groupId, groupName) ==
    IF enabledGroups = <<>>
    THEN [ ret |-> FALSE, config |-> cfg, saved |-> 0 ]
    ELSE LET i == Head(enabledGroups)
             targetGroup == cfg.targetGroups[i]
         IN  IF IdMatches(targetGroup, groupId)
             THEN [ ret |-> TRUE, config |-> cfg, saved |-> 0 ]
             ELSE IF NameMatches(cfg, targetGroup, groupName)
                  THEN Memoize(cfg, i, groupId)
                  ELSE ScanGroups(cfg, Tail(enabledGroups), groupId, groupName)

Reverse(s) == [i \in 1..Len(s) |-> s[Len(s) + 1 - i]]

\* the loop of shouldMonitorGroup over the enabled entries
MatchEnabledLastFirst(cfg, groupId, groupName) ==
    ScanGroups(cfg, Reverse(EnabledGroups(cfg)), groupId, groupName)
MatchEnabled(cfg, groupId, groupName) ==
    ScanGroups(cfg, EnabledGroups(cfg), groupId, groupName)

shouldMonitorGroup(cfg, groupId, groupName) ==
    IF Len(cfg.targetGroups) = 0
    THEN [ ret |-> LogAllGroupsIfEmpty(cfg), config |-> cfg, saved |-> 0 ]
    ELSE IF EnabledGroups(cfg) = <<>>
         THEN [ ret |-> LogAllGroupsIfEmpty(cfg), config |-> cfg, saved |-> 0 ]
         ELSE MatchEnabled(cfg, groupId, groupName)

\* saveConfigAsync: JSON.stringify(config) is evaluated at the call, the
\* write itself completes later
SaveConfigAsync(cfg, n) ==
    IF n = 0 THEN pendingWrites ELSE Append(pendingWrites, cfg)

\* the bookkeeping of one shouldMonitorGroup call
NoCall == [ called |-> FALSE ]

NotParsed == [ done |-> FALSE ]

MemoizedBy(before, after, groupId, groupName) ==
    { <<i, groupId, groupName>> : i \in { j \in 1..Len(before.targetGroups) :
          before.targetGroups[j].id # after.targetGroups[j].id } }

CallShouldMonitorGroup(groupId, groupName) ==
    LET r == shouldMonitorGroup(config, groupId, groupName)
    IN  /\ config' = r.config
        /\ pendingWrites' = SaveConfigAsync(r.config, r.saved)
        /\ lastFilter' = [ called |-> TRUE, groupId |-> groupId,
                           groupName |-> groupName, before |-> config,
                           after |-> r.config, ret |-> r.ret,
                           saved |-> r.saved, known |-> memoized ]
        /\ memoized' = memoized \cup MemoizedBy(config, r.config, groupId, groupName)

\* a settling that undoes the memoized ids when the write failed
ConfigWriteDoneRollingBack ==
    \E i \in 1..Len(pendingWrites), ok \in BOOLEAN :
        /\ configFile' = IF ok THEN pendingWrites[i] ELSE configFile
        /\ config' = IF ok \/ configFile \in {[ file |-> "absent" ], [ file |-> "malformed" ]}
                     THEN config ELSE configFile
        /\ pendingWrites' = SubSeq(pendingWrites, 1, i - 1)
                            \o SubSeq(pendingWrites, i + 1, Len(pendingWrites))
        /\ UNCHANGED <<lastFilter, memoized, parseVars, botVars, msgVars>>

\* fs.writeFile of saveConfigAsync settles: written, or failed and logged
ConfigWriteDone ==
    \E i \in 1..Len(pendingWrites), ok \in BOOLEAN :
        /\ configFile' = IF ok THEN pendingWrites[i] ELSE configFile
        /\ pendingWrites' = SubSeq(pendingWrites, 1, i - 1)
                            \o SubSeq(pendingWrites, i + 1, Len(pendingWrites))
        /\ UNCHANGED <<config, lastFilter, memoized, parseVars, botVars, msgVars>>

----------------------------------------------------------------------------
(* Distribution Request Parser: parseDistributionRequest *)

Android == <<"a","n","d","r","o","i","d">>
Ios == <<"i","o","s">>

\* the texts of the examples
JohnDoeAndroid == <<"j","o","h","n",".","d","o","e","@","c","o","m","p","a","n","y",
                    ".","c","o","m","-","a","n","d","r","o","i","d">>
JohnDoeEmail == <<"j","o","h","n",".","d","o","e","@","c","o","m","p","a","n","y",
                  ".","c","o","m">>
JohnIosUpper == <<"J","O","H","N","@","X",".","C","O","M","-","I","O","S">>
JohnXEmail == <<"j","o","h","n","@","x",".","c","o","m">>
NotAnEmailAndroid == <<"n","o","t","-","a","n","-","e","m","a","i","l","-",
                       "a","n","d","r","o","i","d">>
ABWindows == <<"a","@","b",".","c","o","m","-","w","i","n","d","o","w","s">>
ABAndroid == <<"a","@","b",".","c","o","m","-","a","n","d","r","o","i","d">>

\* String.prototype.trim
WhiteSpace == {" ", "\t", "\n"}

RECURSIVE TrimStart(_)
TrimStart(s) ==
    IF s # <<>> /\ Head(s) \in WhiteSpace THEN TrimStart(Tail(s)) ELSE s

RECURSIVE TrimEnd(_)
TrimEnd(s) ==
    IF s # <<>> /\ s[Len(s)] \in WhiteSpace
    THEN TrimEnd(SubSeq(s, 1, Len(s) - 1))
    ELSE s

Trim(s) == TrimEnd(TrimStart(s))

AllIn(s, S) == \A i \in 1..Len(s) : s[i] \in S

\* the character classes of the pattern; under /i a class matches both cases
LocalClass == Letters \cup Digits \cup {".", "_", "%", "+", "-"}
DomainClass == Letters \cup Digits \cup {".", "-"}

\* (android|ios) under the /i flag
PlatformTokenExactCase(p) == p \in {Android, Ios}
PlatformToken(p) == ToLowerCase(p) \in {Android, Ios}

\* /^([a-zA-Z0-9._%+-]+@[a-zA-Z0-9.-]+\.[a-zA-Z]{2,})-(android|ios)$/i on s:
\* the ways to cut s at the "@" (a), at the "." before the last label (d)
\* and at the "-" before the platform (h)
At(s, c) == { i \in 1..Len(s) : s[i] = c }

PatternMatches(s) ==
    { m \in At(s, "@") \X At(s, ".") \X At(s, "-") :
        /\ m[1] > 1 /\ AllIn(SubSeq(s, 1, m[1] - 1), LocalClass)
        /\ m[2] > m[1] + 1 /\ AllIn(SubSeq(s, m[1] + 1, m[2] - 1), DomainClass)
        /\ m[3] > m[2] + 2 /\ AllIn(SubSeq(s, m[2] + 1, m[3] - 1), Letters)
        /\ PlatformToken(SubSeq(s, m[3] + 1, Len(s))) }

NoMatch == [ matched |-> FALSE ]

\* a match that returns the captures as they were written
MatchInKeepingCase(s) ==
    IF PatternMatches(s) = {}
    THEN NoMatch
    ELSE LET m == CHOOSE m \in PatternMatches(s) : TRUE
         IN  [ matched |-> TRUE,
               email |-> SubSeq(s, 1, m[3] - 1),
               platform |-> SubSeq(s, m[3] + 1, Len(s)) ]

\* messageContent.match(pattern) and the object built from the captures
MatchIn(s) ==
    IF PatternMatches(s) = {}
    THEN NoMatch
    ELSE LET m == CHOOSE m \in PatternMatches(s) : TRUE
         IN  [ matched |-> TRUE,
               email |-> ToLowerCase(SubSeq(s, 1, m[3] - 1)),
               platform |-> ToLowerCase(SubSeq(s, m[3] + 1, Len(s))) ]

\* the value undefined where the code expects a string (the text of an
\* extendedTextMessage that has none): no string, a sequence whose one
\* element is no character
Undefined == << "undefined" >>

\* messageContent.trim() on undefined throws, nothing is returned
TypeError == [ matched |-> FALSE, thrown |-> "TypeError" ]

parseDistributionRequestUntrimmed(messageContent) == MatchIn(messageContent)
parseDistributionRequest(messageContent) ==
    IF messageContent = Undefined THEN TypeError ELSE MatchIn(Trim(messageContent))

----------------------------------------------------------------------------
(* Configuration loading, Firebase initialisation, connection *)

NullConfig == [ null |-> TRUE ]
FileAbsent == [ file |-> "absent" ]
FileMalformed == [ file |-> "malformed" ]

\* a file that parses to an object whose targetGroups is no array (a
\* string, a number, an object): config.targetGroups.length does not throw
FileNoArray ==
    [ file |-> "targetGroups is no array",
      firebase |-> [ serviceAccountKeyPath |-> KeyPath,
                     androidAppId |-> <<"1",":","a">>, iosAppId |-> <<>> ] ]

ConfigLoaded == config # NullConfig

\* loadConfig: the file parsed, or the default config when the file is
\* absent (then written out) or unreadable, no JSON or without targetGroups
\* (the catch branch)
LoadedFrom(file) ==
    IF file \in {FileAbsent, FileMalformed} THEN DefaultConfig ELSE file

\* a loadConfig whose catch branch writes the defaults out as well
LoadConfigWritingDefaults ==
    /\ boot = "loadConfig"
    /\ config' = LoadedFrom(configFile)
    /\ \E written \in BOOLEAN :
           configFile' = IF configFile \in {FileAbsent, FileMalformed} /\ written
                         THEN DefaultConfig ELSE configFile
    /\ boot' = "initializeFirebase"
    /\ UNCHANGED <<pendingWrites, lastFilter, memoized, parseVars, firebaseApp,
                   connection, timer, reconnects, closes, msgVars>>

LoadConfig ==
    /\ boot = "loadConfig"
    /\ config' = LoadedFrom(configFile)
    /\ \E written \in BOOLEAN :
           configFile' = IF configFile = FileAbsent /\ written
                         THEN DefaultConfig ELSE configFile
    /\ boot' = "initializeFirebase"
    /\ UNCHANGED <<pendingWrites, lastFilter, memoized, parseVars, firebaseApp,
                   connection, timer, reconnects, closes, msgVars>>

\* initializeFirebase: firebaseApp is assigned when the key file is there and
\* admin.initializeApp succeeds; every failure (no key file, a second
\* initializeApp of the default app) is caught and leaves it as it was
InitializeFirebase ==
    /\ boot = "initializeFirebase"
    /\ firebaseApp' = (firebaseApp \/ config.firebase.serviceAccountKeyPath \in KeyFiles)
    /\ boot' = "makeWASocket"
    /\ UNCHANGED <<cfgVars, parseVars, connection, timer, reconnects, closes, msgVars>>

\* a first start that, failing during setup, schedules another start
MakeWASocketRetrying ==
    /\ boot = "makeWASocket"
    /\ \E created \in BOOLEAN :
           /\ boot' = IF created THEN "running" ELSE "failed"
           /\ connection' = IF created THEN "connecting" ELSE connection
           /\ timer' = IF created THEN timer ELSE reconnects = 0
    /\ UNCHANGED <<cfgVars, parseVars, firebaseApp, reconnects, closes, msgVars>>

\* useMultiFileAuthState, makeWASocket and the three sock.ev.on calls; a
\* throw leaves startWhatsAppBot rejected
MakeWASocket ==
    /\ boot = "makeWASocket"
    /\ \E created \in BOOLEAN :
           /\ boot' = IF created THEN "running" ELSE "failed"
           /\ connection' = IF created THEN "connecting" ELSE connection
    /\ UNCHANGED <<cfgVars, parseVars, firebaseApp, timer, reconnects, closes, msgVars>>

\* connection.update with connection === 'open'
ConnectionOpen ==
    /\ connection = "connecting"
    /\ connection' = "open"
    /\ UNCHANGED <<cfgVars, parseVars, firebaseApp, boot, timer, reconnects, closes, msgVars>>

MaxReconnects == 1

\* a close handler that does not look at the reason
ConnectionCloseAlwaysReconnecting ==
    /\ connection \in {"connecting", "open"}
    /\ \E loggedOut \in BOOLEAN :
           /\ loggedOut \/ reconnects < MaxReconnects
           /\ connection' = IF loggedOut THEN "loggedOut" ELSE "close"
           /\ timer' = (reconnects < MaxReconnects)
           /\ closes' = IF loggedOut THEN closes ELSE closes + 1
    /\ UNCHANGED <<cfgVars, parseVars, firebaseApp, boot, reconnects, msgVars>>

\* connection.update with connection === 'close'
ConnectionClose ==
    /\ connection \in {"connecting", "open"}
    /\ \E loggedOut \in BOOLEAN :
           /\ loggedOut \/ reconnects < MaxReconnects
           /\ connection' = IF loggedOut THEN "loggedOut" ELSE "close"
           /\ timer' = ~loggedOut
           /\ closes' = IF loggedOut THEN closes ELSE closes + 1
    /\ UNCHANGED <<cfgVars, parseVars, firebaseApp, boot, reconnects, msgVars>>

\* the timer fires: startWhatsAppBot() runs again
ReconnectTimer ==
    /\ timer
    /\ timer' = FALSE
    /\ boot' = "loadConfig"
    /\ reconnects' = reconnects + 1
    /\ UNCHANGED <<cfgVars, parseVars, firebaseApp, connection, closes, msgVars>>

----------------------------------------------------------------------------
(* Messages *)

GUs == <<"@","g",".","u","s">>
Direct == <<"5","@","s",".","w","h","a","t","s","a","p","p",".","n","e","t">>
Sender == <<"7","@","s",".","w","h","a","t","s","a","p","p",".","n","e","t">>
Sender2 == <<"8","@","s",".","w","h","a","t","s","a","p","p",".","n","e","t">>
Hi == <<"h","i">>

\* String.prototype.endsWith
HasSuffix(s, w) ==
    Len(s) >= Len(w) /\ SubSeq(s, Len(s) - Len(w) + 1, Len(s)) = w

\* senderId.split('@')[0]
RECURSIVE UpTo(_, _)
UpTo(s, c) ==
    IF s = <<>> \/ Head(s) = c THEN <<>> ELSE <<Head(s)>> \o UpTo(Tail(s), c)

\* name.split('/').pop()
RECURSIVE AfterLast(_, _)
AfterLast(s, c) ==
    IF s = <<>> \/ s[Len(s)] = c THEN <<>>
    ELSE Append(AfterLast(SubSeq(s, 1, Len(s) - 1), c), s[Len(s)])

\* the content taxonomy of logGroupMessage (lines 505-525); text is the
\* conversation, the extended text, the caption or the file name
Bracket(s) == <<"[">> \o s \o <<"]">>
ImageWord == <<"I","m","a","g","e">>
VideoWord == <<"V","i","d","e","o">>
ExtractContent(msg) ==
    IF msg.kind = "conversation" /\ Truthy(msg.text) THEN msg.text
    ELSE IF msg.kind = "extendedTextMessage" THEN msg.text
    ELSE IF msg.kind = "imageMessage"
         THEN Bracket(ImageWord)
              \o (IF Truthy(msg.text) THEN <<":", " ">> \o msg.text ELSE <<>>)
    ELSE IF msg.kind = "videoMessage"
         THEN Bracket(VideoWord)
              \o (IF Truthy(msg.text) THEN <<":", " ">> \o msg.text ELSE <<>>)
    ELSE IF msg.kind = "audioMessage"
         THEN Bracket(<<"A","u","d","i","o"," ","M","e","s","s","a","g","e">>)
    ELSE IF msg.kind = "documentMessage"
         THEN Bracket(<<"D","o","c","u","m","e","n","t",":"," ">>
                      \o (IF Truthy(msg.text) THEN msg.text
                          ELSE <<"U","n","k","n","o","w","n">>))
    ELSE IF msg.kind = "stickerMessage"
         THEN Bracket(<<"S","t","i","c","k","e","r">>)
    ELSE Bracket(<<"O","t","h","e","r"," ","m","e","s","s","a","g","e"," ",
                   "t","y","p","e">>)

\* every message taken for a text message
IsTextMessageAlways(msg) == TRUE

\* message.message?.conversation || message.message?.extendedTextMessage
IsTextMessage(msg) ==
    \/ msg.kind = "conversation" /\ Truthy(msg.text)
    \/ msg.kind = "extendedTextMessage"

\* what sock.groupMetadata(groupId).subject gives for the two groups
Subject(groupId) == IF groupId = G1 THEN TeamChat ELSE teamchat

\* sock.onWhatsApp(senderId): a contact with a notify name for Sender, no
\* contact or a rejection for Sender2
Notify == <<"A","n","n">>
Contacts(senderId) == IF senderId = Sender THEN {"notify"} ELSE {"none", "throw"}

\* the releases the listing call returns
R1 == [ name |-> <<"p","/","a","/","r","e","l","e","a","s","e","s","/","r","1">>,
        displayVersion |-> <<"1",".","0">> ]
R2 == [ name |-> <<"p","/","a","/","r","e","l","e","a","s","e","s","/","r","2">>,
        displayVersion |-> <<>> ]

\* axios.get of the listing call: a failure, or response.data.releases || []
\* error.message of a failed token fetch or HTTP call
UpstreamErrors == {"ETIMEDOUT", "PERMISSION_DENIED"}
NoError == "none"

ListResponses ==
    { [ failed |-> TRUE, error |-> e, releases |-> <<>> ] : e \in UpstreamErrors }
    \cup { [ failed |-> FALSE, error |-> NoError, releases |-> rs ] :
             rs \in {<<>>, <<R1, R2>>, <<R2, R1>>} }

NotListed == [ failed |-> FALSE, error |-> NoError, releases |-> <<>> ]

\* the releases sorted by name first: the one with the greatest name
LatestReleaseSorted(releases) ==
    IF \E i \in 1..Len(releases) : releases[i] = R2 THEN R2 ELSE releases[1]

\* the last release of the list
LatestReleaseLast(releases) == releases[Len(releases)]

\* const latestRelease = releases[0]
LatestRelease(releases) == releases[1]

\* axios.post of addTestersToRelease: resolved, or rejected with an error
AddResponses ==
    { [ failed |-> FALSE, error |-> NoError ] }
    \cup { [ failed |-> TRUE, error |-> e ] : e \in UpstreamErrors }

NotAdded == [ failed |-> FALSE, error |-> NoError ]

\* a result of addTesterToDistribution: message is the template string, its
\* fixed text and the values interpolated into it
NoResult == [ success |-> FALSE, message |-> [ text |-> "none" ] ]
NoReply == [ to |-> <<>>, prefix |-> "none" ]
NoRequest == [ releaseId |-> <<>>, emails |-> <<>>, appId |-> <<>> ]

\* console output counted per group id: nothing printed yet, the number of
\* prints for a group, one more print for a group
NoOutput == <<>>
Emitted(output, groupId) == IF groupId \in DOMAIN output THEN output[groupId] ELSE 0
Emit(output, groupId) ==
    [ g \in DOMAIN output \cup {groupId} |->
          Emitted(output, g) + (IF g = groupId THEN 1 ELSE 0) ]

Idle ==
    [ pc |-> "idle", batch |-> <<>>, k |-> 0, groupName |-> <<>>,
      senderName |-> <<>>, logged |-> FALSE, parses |-> 0, request |-> NoMatch,
      lists |-> 0, listed |-> NotListed, adds |-> 0, added |-> NotAdded, addRequest |-> NoRequest,
      release |-> <<>>,
      result |-> NoResult, replies |-> 0, reply |-> NoReply, toWrite |-> <<>>,
      saved |-> 0 ]

BotIdle ==
    /\ firebaseApp = FALSE
    /\ boot = "idle"
    /\ connection = "none"
    /\ timer = FALSE
    /\ reconnects = 0
    /\ closes = 0
    /\ handlers = <<>>
    /\ logFile = [ file |-> "absent", entries |-> <<>> ]
    /\ inbound = {}
    /\ discoveredGroups = {}
    /\ filteredGroups = {}
    /\ announced = NoOutput
    /\ noticed = NoOutput

----------------------------------------------------------------------------
(* Message Ingestion Pipeline: the messages.upsert callback, logGroupMessage, *)
(* processDistributionRequest, addTesterToDistribution, saveMessageToFile.    *)
(* One action per resumption of the callback: from the settling of the       *)
(* awaited call to the next await.                                           *)

MaxBatches == 2
MaxBatchLen == 1

Handlers == 1..MaxBatches

Message(fromMe, jid, participant, kind, text) ==
    [ fromMe |-> fromMe, remoteJid |-> jid, participant |-> participant,
      kind |-> kind, text |-> text ]

\* the messages the connection delivers
Inbound ==
    { Message(FALSE, G1, Sender, "conversation", ABAndroid),
      Message(FALSE, G2, Sender2, "conversation", Hi) }

BatchesOf(messages) == SeqsUpTo(messages, MaxBatchLen) \ {<<>>}

Msg(h) == handlers[h].batch[handlers[h].k]

\* a loop without the fromMe test of line 438
RECURSIVE NextGroupMessageWithOwn(_, _)
NextGroupMessageWithOwn(batch, k) ==
    IF k > Len(batch) THEN k
    ELSE IF Truthy(batch[k].remoteJid) /\ HasSuffix(batch[k].remoteJid, GUs)
         THEN k
         ELSE NextGroupMessageWithOwn(batch, k + 1)

\* a loop without the '@g.us' test of line 441
RECURSIVE NextMessageOfAnyChat(_, _)
NextMessageOfAnyChat(batch, k) ==
    IF k > Len(batch) THEN k
    ELSE IF ~batch[k].fromMe THEN k
         ELSE NextMessageOfAnyChat(batch, k + 1)

\* for (const message of messages): the next message from position k on that
\* is not fromMe and whose remoteJid ends with '@g.us'
RECURSIVE NextGroupMessage(_, _)
NextGroupMessage(batch, k) ==
    IF k > Len(batch) THEN k
    ELSE IF ~batch[k].fromMe /\ Truthy(batch[k].remoteJid)
            /\ HasSuffix(batch[k].remoteJid, GUs)
         THEN k
         ELSE NextGroupMessage(batch, k + 1)

\* the callback goes on with the batch from position k: it enters
\* logGroupMessage for the next group message and waits for
\* sock.groupMetadata, or it has gone through the batch
Continue(batch, k) ==
    LET n == NextGroupMessage(batch, k)
    IN  IF n > Len(batch)
        THEN [Idle EXCEPT !.pc = "done"]
        ELSE [Idle EXCEPT !.pc = "groupMetadata", !.batch = batch, !.k = n]

Finish(h) == Continue(handlers[h].batch, handlers[h].k + 1)

\* sock.ev.on('messages.upsert', ...): a batch arrives
MessagesUpsert(h) ==
    /\ connection = "open"
    /\ handlers[h].pc = "idle"
    /\ \A g \in Handlers : g < h => handlers[g].pc # "idle"
    /\ \E batch \in inbound :
           handlers' = [handlers EXCEPT ![h] = Continue(batch, 1)]
    /\ UNCHANGED <<cfgVars, parseVars, botVars, logFile, discoveredGroups,
                   filteredGroups, announced, noticed, inbound>>

\* a filter decision without the return of line 550: a rejected message
\* goes on like an accepted one
FilterDecisionNoReturn(h, groupName) ==
    LET groupId == Msg(h).remoteJid
        r == shouldMonitorGroup(config, groupId, groupName)
    IN  /\ CallShouldMonitorGroup(groupId, groupName)
        /\ handlers' = [handlers EXCEPT ![h].pc = "onWhatsApp",
                                        ![h].groupName = groupName,
                                        ![h].saved = r.saved]
        /\ noticed' = IF r.ret \/ groupId \in filteredGroups THEN noticed
                       ELSE Emit(noticed, groupId)
        /\ filteredGroups' = IF r.ret THEN filteredGroups
                              ELSE filteredGroups \cup {groupId}

\* lines 542-551 and what follows up to the next await: the filter decides;
\* a rejected group is noted in global.filteredGroups and the message is
\* left, an accepted one goes on to sock.onWhatsApp(senderId)
FilterDecision(h, groupName) ==
    LET groupId == Msg(h).remoteJid
        r == shouldMonitorGroup(config, groupId, groupName)
    IN  /\ CallShouldMonitorGroup(groupId, groupName)
        /\ IF r.ret
           THEN /\ handlers' = [handlers EXCEPT ![h].pc = "onWhatsApp",
                                                ![h].groupName = groupName,
                                                ![h].saved = r.saved]
                /\ UNCHANGED <<filteredGroups, noticed>>
           ELSE /\ handlers' = [handlers EXCEPT ![h] = Finish(h)]
                /\ noticed' = IF groupId \in filteredGroups THEN noticed
                               ELSE Emit(noticed, groupId)
                /\ filteredGroups' = filteredGroups \cup {groupId}

DiscoveryMode == config.settings.discoveryMode = "true"

\* a lookup that keeps the initial name 'Unknown Group' when it fails
GroupMetadataKeepingUnknown(h) ==
    /\ handlers[h].pc = "groupMetadata"
    /\ \E found \in BOOLEAN :
           LET groupName == IF found THEN Subject(Msg(h).remoteJid)
                            ELSE <<"U","n","k","n","o","w","n"," ","G","r","o","u","p">>
           IN  IF DiscoveryMode
               THEN /\ handlers' = [handlers EXCEPT ![h].pc = "discoverGroupInfo",
                                                    ![h].groupName = groupName]
                    /\ UNCHANGED <<cfgVars, filteredGroups, noticed>>
               ELSE FilterDecision(h, groupName)
    /\ UNCHANGED <<configFile, parseVars, botVars, logFile, discoveredGroups, announced,
                   inbound>>

\* sock.groupMetadata settles in logGroupMessage (lines 527-540)
GroupMetadata(h) ==
    /\ handlers[h].pc = "groupMetadata"
    /\ \E found \in BOOLEAN :
           LET groupName == IF found THEN Subject(Msg(h).remoteJid)
                            ELSE Msg(h).remoteJid
           IN  IF DiscoveryMode
               THEN /\ handlers' = [handlers EXCEPT ![h].pc = "discoverGroupInfo",
                                                    ![h].groupName = groupName]
                    /\ UNCHANGED <<cfgVars, filteredGroups, noticed>>
               ELSE FilterDecision(h, groupName)
    /\ UNCHANGED <<configFile, parseVars, botVars, logFile, discoveredGroups, announced,
                   inbound>>

\* discoverGroupInfo without the has-check of line 474
DiscoverGroupInfoEveryTime(h) ==
    /\ handlers[h].pc = "discoverGroupInfo"
    /\ announced' = Emit(announced, Msg(h).remoteJid)
    /\ discoveredGroups' = discoveredGroups \cup {Msg(h).remoteJid}
    /\ FilterDecision(h, handlers[h].groupName)
    /\ UNCHANGED <<configFile, parseVars, botVars, logFile, inbound>>

\* sock.groupMetadata settles in discoverGroupInfo (lines 459-491), then
\* logGroupMessage goes on with the filter
DiscoverGroupInfo(h) ==
    /\ handlers[h].pc = "discoverGroupInfo"
    /\ announced' = IF Msg(h).remoteJid \in discoveredGroups THEN announced
                     ELSE Emit(announced, Msg(h).remoteJid)
    /\ discoveredGroups' = discoveredGroups \cup {Msg(h).remoteJid}
    /\ FilterDecision(h, handlers[h].groupName)
    /\ UNCHANGED <<configFile, parseVars, botVars, logFile, inbound>>

\* the two marks a reply starts with
CheckMark == "white heavy check mark"
CrossMark == "cross mark"

\* a reply that always starts with the check mark
ReplyAlwaysCheckMark(groupId, result) ==
    [ to |-> groupId, prefix |-> CheckMark, message |-> result.message ]

\* sendGroupReply is called with the reply text: prefix and message
Reply(groupId, result) ==
    [ to |-> groupId,
      prefix |-> IF result.success THEN CheckMark ELSE CrossMark,
      message |-> result.message ]

\* a reply sent to the sender of the message instead of its group
ReplyingToSender(hr, groupId, result) ==
    [hr EXCEPT !.pc = "sendMessage", !.result = result,
               !.replies = hr.replies + 1,
               !.reply = Reply(hr.batch[hr.k].participant, result)]

Replying(hr, groupId, result) ==
    [hr EXCEPT !.pc = "sendMessage", !.result = result,
               !.replies = hr.replies + 1, !.reply = Reply(groupId, result)]

\* the android key for every platform
AppIdKeyAndroidOnly(platform) == "androidAppId"

\* const appIdKey = platform === 'android' ? 'androidAppId' : 'iosAppId'
AppIdKey(platform) == IF platform = Android THEN "androidAppId" ELSE "iosAppId"

\* a dispatcher that does not look at firebaseApp
AddTesterToDistributionUnchecked(hr, groupId) ==
    LET key == AppIdKey(hr.request.platform)
    IN  IF ~Truthy(config.firebase[key])
        THEN Replying(hr, groupId,
                      [ success |-> FALSE,
                        message |-> [ text |-> "No app ID configured in config.json",
                                      platform |-> hr.request.platform,
                                      appIdKey |-> key ] ])
        ELSE [hr EXCEPT !.pc = "listReleases", !.lists = hr.lists + 1]

\* a dispatcher that answers at once when another callback is already
\* working on the same request
AddTesterToDistributionDeduplicating(hr, groupId) ==
    LET key == AppIdKey(hr.request.platform)
    IN  IF ~firebaseApp
        THEN Replying(hr, groupId,
                      [ success |-> FALSE,
                        message |-> [ text |-> "Firebase not initialized" ] ])
        ELSE IF ~Truthy(config.firebase[key])
             THEN Replying(hr, groupId,
                           [ success |-> FALSE,
                             message |-> [ text |-> "No app ID configured in config.json",
                                           platform |-> hr.request.platform,
                                           appIdKey |-> key ] ])
             ELSE IF \E g \in Handlers :
                         /\ handlers[g].pc \in {"listReleases", "addTesters", "sendMessage"}
                         /\ handlers[g].request = hr.request
                  THEN Replying(hr, groupId,
                                [ success |-> FALSE,
                                  message |-> [ text |-> "Request already in progress" ] ])
                  ELSE [hr EXCEPT !.pc = "listReleases", !.lists = hr.lists + 1]

\* addTesterToDistribution up to its first await (lines 252-270)
AddTesterToDistribution(hr, groupId) ==
    LET key == AppIdKey(hr.request.platform)
    IN  IF ~firebaseApp
        THEN Replying(hr, groupId,
                      [ success |-> FALSE,
                        message |-> [ text |-> "Firebase not initialized" ] ])
        ELSE IF ~Truthy(config.firebase[key])
             THEN Replying(hr, groupId,
                           [ success |-> FALSE,
                             message |-> [ text |-> "No app ID configured in config.json",
                                           platform |-> hr.request.platform,
                                           appIdKey |-> key ] ])
             ELSE [hr EXCEPT !.pc = "listReleases", !.lists = hr.lists + 1]

\* an exception that leaves the callback rejected, the rest of its batch
\* unread
Uncaught(hr) == [Idle EXCEPT !.pc = "rejected"]

\* the catch of logGroupMessage (lines 596-598): the error is logged,
\* logGroupMessage returns and the callback takes the next message
Caught(hr) == Continue(hr.batch, hr.k + 1)

\* processDistributionRequest up to its first await (lines 321-331); an
\* exception of the parser goes through it to logGroupMessage
ProcessDistributionRequest(hr, groupId, messageContent) ==
    LET request == parseDistributionRequest(messageContent)
    IN  IF request = TypeError
        THEN Caught(hr)
        ELSE IF ~request.matched
        THEN [hr EXCEPT !.pc = "readLog", !.parses = hr.parses + 1]
        ELSE AddTesterToDistribution([hr EXCEPT !.request = request,
                                                !.parses = hr.parses + 1], groupId)

\* sock.onWhatsApp settles (lines 553-591): the sender name, the log entry
\* on the console, then the distribution request of a text message
OnWhatsApp(h) ==
    /\ handlers[h].pc = "onWhatsApp"
    /\ \E contact \in Contacts(Msg(h).participant) :
           LET senderName == IF contact = "notify" THEN Notify
                             ELSE UpTo(Msg(h).participant, "@")
               hr == [handlers[h] EXCEPT !.senderName = senderName, !.logged = TRUE]
           IN  handlers' = [handlers EXCEPT ![h] =
                   IF IsTextMessage(Msg(h))
                   THEN ProcessDistributionRequest(hr, Msg(h).remoteJid,
                                                   ExtractContent(Msg(h)))
                   ELSE [hr EXCEPT !.pc = "readLog"]]
    /\ UNCHANGED <<cfgVars, parseVars, botVars, logFile, discoveredGroups,
                   filteredGroups, announced, noticed, inbound>>

\* a listing that is tried a second time when it failed
ListReleasesRetrying(h) ==
    /\ handlers[h].pc = "listReleases"
    /\ \E response \in ListResponses :
           LET releases == IF response.failed THEN <<>> ELSE response.releases
               hr == [handlers[h] EXCEPT !.listed = response]
           IN  handlers' = [handlers EXCEPT ![h] =
                   IF response.failed /\ hr.lists < 2
                   THEN [hr EXCEPT !.lists = hr.lists + 1]
                   ELSE IF releases = <<>>
                   THEN Replying(hr, Msg(h).remoteJid,
                                 [ success |-> FALSE,
                                   message |-> [ text |-> "No releases found for app",
                                                 platform |-> hr.request.platform ] ])
                   ELSE [hr EXCEPT !.pc = "addTesters",
                                   !.adds = hr.adds + 1,
                                   !.release = LatestRelease(releases),
                                   !.addRequest =
                                       [ releaseId |-> AfterLast(LatestRelease(releases).name, "/"),
                                         emails |-> <<hr.request.email>>,
                                         appId |-> config.firebase[AppIdKey(hr.request.platform)] ]]]
    /\ UNCHANGED <<cfgVars, parseVars, botVars, logFile, discoveredGroups,
                   filteredGroups, announced, noticed, inbound>>

\* a listing after which the add-tester call is made even for an empty list
ListReleasesThenAddAnyway(h) ==
    /\ handlers[h].pc = "listReleases"
    /\ \E response \in ListResponses :
           LET hr == [handlers[h] EXCEPT !.listed = response]
           IN  handlers' = [handlers EXCEPT ![h] =
                   [hr EXCEPT !.pc = "addTesters",
                              !.adds = hr.adds + 1,
                              !.release = R1,
                              !.addRequest =
                                  [ releaseId |-> AfterLast(R1.name, "/"),
                                    emails |-> <<hr.request.email>>,
                                    appId |-> config.firebase[AppIdKey(hr.request.platform)] ]]]
    /\ UNCHANGED <<cfgVars, parseVars, botVars, logFile, discoveredGroups,
                   filteredGroups, announced, noticed, inbound>>

\* listAppDistributionReleases settles (lines 200-217, 270-284): an error is
\* logged and gives [], an empty list ends the request, otherwise the first
\* release is taken and addTestersToRelease is called
ListReleases(h) ==
    /\ handlers[h].pc = "listReleases"
    /\ \E response \in ListResponses :
           LET releases == IF response.failed THEN <<>> ELSE response.releases
               hr == [handlers[h] EXCEPT !.listed = response]
           IN  handlers' = [handlers EXCEPT ![h] =
                   IF releases = <<>>
                   THEN Replying(hr, Msg(h).remoteJid,
                                 [ success |-> FALSE,
                                   message |-> [ text |-> "No releases found for app",
                                                 platform |-> hr.request.platform ] ])
                   ELSE [hr EXCEPT !.pc = "addTesters",
                                   !.adds = hr.adds + 1,
                                   !.release = LatestRelease(releases),
                                   !.addRequest =
                                       [ releaseId |-> AfterLast(LatestRelease(releases).name, "/"),
                                         emails |-> <<hr.request.email>>,
                                         appId |-> config.firebase[AppIdKey(hr.request.platform)] ]]]
    /\ UNCHANGED <<cfgVars, parseVars, botVars, logFile, discoveredGroups,
                   filteredGroups, announced, noticed, inbound>>

\* a dispatcher that reports success whatever the add-tester call did
AddTestersReportingSuccess(h) ==
    /\ handlers[h].pc = "addTesters"
    /\ \E response \in AddResponses :
           LET hr == [handlers[h] EXCEPT !.added = response]
               result ==
                   [ success |-> TRUE,
                     message |-> [ text |-> "Successfully added to app distribution",
                                   email |-> hr.request.email,
                                   platform |-> hr.request.platform,
                                   release |-> IF Truthy(hr.release.displayVersion)
                                               THEN hr.release.displayVersion
                                               ELSE hr.addRequest.releaseId ] ]
           IN  handlers' = [handlers EXCEPT ![h] =
                                Replying(hr, Msg(h).remoteJid, result)]
    /\ UNCHANGED <<cfgVars, parseVars, botVars, logFile, discoveredGroups,
                   filteredGroups, announced, noticed, inbound>>

\* an add-tester call whose failure is reported without its cause
AddTestersHidingError(h) ==
    /\ handlers[h].pc = "addTesters"
    /\ \E response \in AddResponses :
           LET hr == [handlers[h] EXCEPT !.added = response]
               result ==
                   IF ~response.failed
                   THEN [ success |-> TRUE,
                          message |-> [ text |-> "Successfully added to app distribution",
                                        email |-> hr.request.email,
                                        platform |-> hr.request.platform,
                                        release |-> IF Truthy(hr.release.displayVersion)
                                                    THEN hr.release.displayVersion
                                                    ELSE hr.addRequest.releaseId ] ]
                   ELSE [ success |-> FALSE,
                          message |-> [ text |-> "Failed to add tester" ] ]
           IN  handlers' = [handlers EXCEPT ![h] =
                                Replying(hr, Msg(h).remoteJid, result)]
    /\ UNCHANGED <<cfgVars, parseVars, botVars, logFile, discoveredGroups,
                   filteredGroups, announced, noticed, inbound>>

\* addTestersToRelease settles (lines 226-244, 284-297): a rejection is
\* rethrown as "Failed to add testers: <upstream>" and caught by
\* addTesterToDistribution, which returns "Failed to add tester: <that>"
AddTesters(h) ==
    /\ handlers[h].pc = "addTesters"
    /\ \E response \in AddResponses :
           LET hr == [handlers[h] EXCEPT !.added = response]
               result ==
                   IF ~response.failed
                   THEN [ success |-> TRUE,
                          message |-> [ text |-> "Successfully added to app distribution",
                                        email |-> hr.request.email,
                                        platform |-> hr.request.platform,
                                        release |-> IF Truthy(hr.release.displayVersion)
                                                    THEN hr.release.displayVersion
                                                    ELSE hr.addRequest.releaseId ] ]
                   ELSE [ success |-> FALSE,
                          message |-> [ text |-> "Failed to add tester",
                                        error |-> [ text |-> "Failed to add testers",
                                                    error |-> response.error ] ] ]
           IN  handlers' = [handlers EXCEPT ![h] =
                                Replying(hr, Msg(h).remoteJid, result)]
    /\ UNCHANGED <<cfgVars, parseVars, botVars, logFile, discoveredGroups,
                   filteredGroups, announced, noticed, inbound>>

\* processDistributionRequest has returned: its locals are gone, the counts
\* of the calls it made are kept
AfterReply(hr) ==
    [hr EXCEPT !.pc = "readLog", !.request = NoMatch, !.addRequest = NoRequest,
               !.release = <<>>, !.listed = NotListed, !.added = NotAdded,
               !.result = NoResult,
               !.reply = NoReply]

\* sock.sendMessage settles (lines 306-313): sent, or the failure logged;
\* then saveMessageToFile starts
SendMessage(h) ==
    /\ handlers[h].pc = "sendMessage"
    /\ handlers' = [handlers EXCEPT ![h] = AfterReply(handlers[h])]
    /\ UNCHANGED <<cfgVars, parseVars, botVars, logFile, discoveredGroups,
                   filteredGroups, announced, noticed, inbound>>

LogEntry(h) ==
    [ messageId |-> <<h, handlers[h].k>>,
      groupId |-> Msg(h).remoteJid,
      groupName |-> handlers[h].groupName,
      senderId |-> Msg(h).participant,
      senderName |-> handlers[h].senderName,
      content |-> ExtractContent(Msg(h)) ]

\* the day's log file: absent, not parsable, or the JSON array of entries
LogAbsent == [ file |-> "absent", entries |-> <<>> ]
LogCorrupt == [ file |-> "corrupt", entries |-> <<>> ]
LogOf(entries) == [ file |-> "array", entries |-> entries ]

\* saveMessageToFile up to fs.writeFile (lines 605-625): the directory, the
\* existing entries (none when the file is absent or does not parse), the
\* new entry pushed; a throw is logged and ends the message
ReadLog(h) ==
    /\ handlers[h].pc = "readLog"
    /\ \E read \in BOOLEAN :
           LET existingLogs == IF logFile.file = "array"
                               THEN logFile.entries ELSE <<>>
           IN  handlers' = [handlers EXCEPT ![h] =
                   IF read
                   THEN [handlers[h] EXCEPT !.pc = "writeLog",
                                            !.toWrite = Append(existingLogs, LogEntry(h))]
                   ELSE Finish(h)]
    /\ UNCHANGED <<cfgVars, parseVars, botVars, logFile, discoveredGroups,
                   filteredGroups, announced, noticed, inbound>>

\* fs.writeFile of saveMessageToFile settles; the callback takes the next message
WriteLog(h) ==
    /\ handlers[h].pc = "writeLog"
    /\ \E written \in BOOLEAN :
           logFile' = IF written THEN LogOf(handlers[h].toWrite) ELSE logFile
    /\ handlers' = [handlers EXCEPT ![h] = Finish(h)]
    /\ UNCHANGED <<cfgVars, parseVars, botVars, discoveredGroups, filteredGroups, announced, noticed, inbound>>

----------------------------------------------------------------------------
(* The bot *)

\* the config files the bot is started on
FileConfigs ==
    { [ targetGroups |-> << [ name |-> TeamChat, id |-> NoId, enabled |-> "true" ] >>,
        settings |-> [ logAllGroupsIfEmpty |-> "true", caseSensitiveGroupNames |-> "false",
                       discoveryMode |-> "false" ],
        firebase |-> [ serviceAccountKeyPath |-> KeyPath,
                       androidAppId |-> <<"1",":","a">>, iosAppId |-> <<>> ] ],
      [ targetGroups |-> << [ name |-> TeamChat, id |-> NoId, enabled |-> "undefined" ],
                            [ name |-> teamchat, id |-> NoId, enabled |-> "true" ] >>,
        settings |-> [ logAllGroupsIfEmpty |-> "false", caseSensitiveGroupNames |-> "undefined",
                       discoveryMode |-> "true" ],
        firebase |-> [ serviceAccountKeyPath |-> DefaultKeyPath,
                       androidAppId |-> <<"1",":","a">>, iosAppId |-> <<>> ] ] }

Init ==
    /\ config = NullConfig
    /\ configFile \in FileConfigs \cup {FileAbsent, FileMalformed}
    /\ pendingWrites = <<>>
    /\ lastFilter = NoCall
    /\ memoized = {}
    /\ input = <<>>
    /\ parsed = NotParsed
    /\ firebaseApp = FALSE
    /\ boot = "loadConfig"
    /\ connection = "none"
    /\ timer = FALSE
    /\ reconnects = 0
    /\ closes = 0
    /\ handlers = [h \in Handlers |-> Idle]
    /\ logFile = LogAbsent
    /\ inbound = BatchesOf(Inbound)
    /\ discoveredGroups = {}
    /\ filteredGroups = {}
    /\ announced = NoOutput
    /\ noticed = NoOutput

Next ==
    \/ LoadConfig
    \/ InitializeFirebase
    \/ MakeWASocket
    \/ ConnectionOpen
    \/ ConnectionClose
    \/ ReconnectTimer
    \/ ConfigWriteDone
    \/ \E h \in Handlers :
           \/ MessagesUpsert(h)
           \/ GroupMetadata(h)
           \/ DiscoverGroupInfo(h)
           \/ OnWhatsApp(h)
           \/ ListReleases(h)
           \/ AddTesters(h)
           \/ SendMessage(h)
           \/ ReadLog(h)
           \/ WriteLog(h)

Spec == Init /\ [][Next]_vars

----------------------------------------------------------------------------
(* Distribution requests: one messages.upsert callback on an open           *)
(* connection, over every message type, app-id configuration and API answer *)

\* G1 is monitored by its id; G2, named "team chat", is not: names are
\* compared case-sensitively
DispatchConfigs ==
    { [ targetGroups |-> << [ name |-> TeamChat, id |-> G1, enabled |-> "true" ] >>,
        settings |-> [ logAllGroupsIfEmpty |-> "false", caseSensitiveGroupNames |-> "true",
                       discoveryMode |-> "false" ],
        firebase |-> [ serviceAccountKeyPath |-> KeyPath,
                       androidAppId |-> a, iosAppId |-> i ] ] :
      a \in {<<"1",":","a">>, <<>>}, i \in {<<"1",":","i">>, <<>>} }

OtherKinds == {"imageMessage", "videoMessage", "audioMessage", "documentMessage",
               "stickerMessage", "reactionMessage"}

DispatchInbound ==
    { Message(FALSE, G1, Sender, "conversation", t) :
          t \in {ABAndroid, Hi, ABWindows, <<>>} }
    \cup { Message(FALSE, G1, Sender, "extendedTextMessage", <<" ">> \o JohnIosUpper) }
    \cup { Message(FALSE, G1, Sender, kind, ABAndroid) : kind \in OtherKinds }
    \cup { Message(FALSE, G2, Sender2, "conversation", ABAndroid) }

InitDispatch ==
    /\ config \in DispatchConfigs
    /\ configFile = config
    /\ pendingWrites = <<>>
    /\ lastFilter = NoCall
    /\ memoized = {}
    /\ input = <<>>
    /\ parsed = NotParsed
    /\ firebaseApp \in BOOLEAN
    /\ boot = "running"
    /\ connection = "open"
    /\ timer = FALSE
    /\ reconnects = 0
    /\ closes = 0
    /\ handlers = [h \in Handlers |-> Idle]
    /\ logFile = LogAbsent
    /\ inbound = BatchesOf(DispatchInbound)
    /\ discoveredGroups = {}
    /\ filteredGroups = {}
    /\ announced = NoOutput
    /\ noticed = NoOutput

NextDispatch ==
    \E h \in {1} :
        \/ MessagesUpsert(h)
        \/ GroupMetadata(h)
        \/ OnWhatsApp(h)
        \/ ListReleases(h)
        \/ AddTesters(h)
        \/ SendMessage(h)
        \/ ReadLog(h)
        \/ WriteLog(h)

SpecDispatch == InitDispatch /\ [][NextDispatch]_vars

----------------------------------------------------------------------------
(* Ingestion: one messages.upsert callback over batches of up to two        *)
(* messages, among them messages of the bot's own account, direct messages, *)
(* a text message without text and a message of a group that is not        *)
(* monitored; the day's log file is absent, not parsable or holds an entry  *)

MaxIngestLen == 2

\* group 1 is monitored by its id, group 2 is not
IngestConfig ==
    [ targetGroups |-> << [ name |-> TeamChat, id |-> G1, enabled |-> "true" ] >>,
      settings |-> [ logAllGroupsIfEmpty |-> "false", caseSensitiveGroupNames |-> "true",
                     discoveryMode |-> "false" ],
      firebase |-> [ serviceAccountKeyPath |-> KeyPath,
                     androidAppId |-> <<"1",":","a">>, iosAppId |-> <<"1",":","i">> ] ]

OwnMessage == Message(TRUE, G1, Sender, "conversation", ABAndroid)
DirectMessage == Message(FALSE, Direct, <<>>, "conversation", ABAndroid)
RequestMessage == Message(FALSE, G1, Sender, "conversation", ABAndroid)
NoTextMessage == Message(FALSE, G1, Sender2, "extendedTextMessage", Undefined)
OtherGroupMessage == Message(FALSE, G2, Sender2, "conversation", Hi)

IngestInbound ==
    { OwnMessage, DirectMessage, RequestMessage, NoTextMessage, OtherGroupMessage }

\* an entry written earlier in the day
OldEntry ==
    [ messageId |-> <<0, 0>>, groupId |-> G1, groupName |-> TeamChat,
      senderId |-> Sender, senderName |-> Notify, content |-> Hi ]

InitIngest ==
    /\ config = IngestConfig
    /\ configFile = config
    /\ pendingWrites = <<>>
    /\ lastFilter = NoCall
    /\ memoized = {}
    /\ input = <<>>
    /\ parsed = NotParsed
    /\ firebaseApp \in BOOLEAN
    /\ boot = "running"
    /\ connection = "open"
    /\ timer = FALSE
    /\ reconnects = 0
    /\ closes = 0
    /\ handlers = [h \in Handlers |-> Idle]
    /\ logFile \in {LogAbsent, LogCorrupt, LogOf(<<OldEntry>>)}
    /\ inbound = SeqsUpTo(IngestInbound, MaxIngestLen) \ {<<>>}
    /\ discoveredGroups = {}
    /\ filteredGroups = {}
    /\ announced = NoOutput
    /\ noticed = NoOutput

NextIngest ==
    \E h \in {1} :
        \/ MessagesUpsert(h)
        \/ GroupMetadata(h)
        \/ OnWhatsApp(h)
        \/ ListReleases(h)
        \/ AddTesters(h)
        \/ SendMessage(h)
        \/ ReadLog(h)
        \/ WriteLog(h)

SpecIngest == InitIngest /\ [][NextIngest]_vars

----------------------------------------------------------------------------
(* Start and reconnect: startWhatsAppBot and the connection.update handler, *)
(* no messages delivered.  The timer of setTimeout fires: the process stays *)
(* alive while a timer is pending, so its callback is run (weak fairness).  *)

InitStart ==
    /\ config = NullConfig
    /\ configFile \in FileConfigs \cup DispatchConfigs
                      \cup {FileAbsent, FileMalformed, FileNoArray}
    /\ pendingWrites = <<>>
    /\ lastFilter = NoCall
    /\ memoized = {}
    /\ input = <<>>
    /\ parsed = NotParsed
    /\ firebaseApp = FALSE
    /\ boot = "loadConfig"
    /\ connection = "none"
    /\ timer = FALSE
    /\ reconnects = 0
    /\ closes = 0
    /\ handlers = [h \in Handlers |-> Idle]
    /\ logFile = LogAbsent
    /\ inbound = {}
    /\ discoveredGroups = {}
    /\ filteredGroups = {}
    /\ announced = NoOutput
    /\ noticed = NoOutput

NextStart ==
    \/ LoadConfig
    \/ InitializeFirebase
    \/ MakeWASocket
    \/ ConnectionOpen
    \/ ConnectionClose
    \/ ReconnectTimer

SpecStart == InitStart /\ [][NextStart]_vars /\ WF_vars(ReconnectTimer)

----------------------------------------------------------------------------
(* The filter called directly, on every config of bounded size *)

MaxGroups == 2

EntryNames == {TeamChat, teamchat}
EntryIds == {NoId, G1, G2}
CallNames == {TeamChat, teamchat, G1}
GroupIds == {G1, G2}

TargetGroup == [ name : EntryNames, id : EntryIds, enabled : {"true", "false"} ]

FilterConfigs ==
    { [ targetGroups |-> tg,
        settings |-> [ logAllGroupsIfEmpty |-> la,
                       caseSensitiveGroupNames |-> cs,
                       discoveryMode |-> "false" ],
        firebase |-> DefaultConfig.firebase ] :
      tg \in SeqsUpTo(TargetGroup, MaxGroups), la \in OptBool, cs \in OptBool }

InitFilter ==
    /\ config \in FilterConfigs
    /\ configFile = config
    /\ pendingWrites = <<>>
    /\ lastFilter = NoCall
    /\ memoized = {}
    /\ input = <<>>
    /\ parsed = NotParsed
    /\ BotIdle

FilterCall ==
    /\ \E groupId \in GroupIds, groupName \in CallNames :
           CallShouldMonitorGroup(groupId, groupName)
    /\ UNCHANGED <<configFile, parseVars, botVars, msgVars>>

NextFilter == FilterCall

SpecFilter == InitFilter /\ [][NextFilter]_vars

----------------------------------------------------------------------------
(* Vocabulary of the claims about the filter, stated on the recorded call:  *)
(* lastFilter.before is the config the call saw, lastFilter.after the       *)
(* config it left.                                                         *)

Called == lastFilter.called

Entries(cfg) == 1..Len(cfg.targetGroups)

Disabled(cfg, i) == cfg.targetGroups[i].enabled = "false"

SomeEnabled(cfg) == \E i \in Entries(cfg) : ~Disabled(cfg, i)

\* equality of names under the configured case rule
SameName(cfg, a, b) ==
    IF cfg.settings.caseSensitiveGroupNames = "true"
    THEN a = b
    ELSE ToLowerCase(a) = ToLowerCase(b)

DifferOnlyInCase(a, b) == a # b /\ ToLowerCase(a) = ToLowerCase(b)

MatchesById(cfg, i, groupId) ==
    cfg.targetGroups[i].id # NoId /\ cfg.targetGroups[i].id = groupId

MatchesByName(cfg, i, groupName) ==
    SameName(cfg, cfg.targetGroups[i].name, groupName)

Matching(cfg, groupId, groupName) ==
    { i \in Entries(cfg) : /\ ~Disabled(cfg, i)
                           /\ \/ MatchesById(cfg, i, groupId)
                              \/ MatchesByName(cfg, i, groupName) }

Least(S) == CHOOSE i \in S : \A j \in S : i <= j

WithId(cfg, i, groupId) == [cfg EXCEPT !.targetGroups[i].id = groupId]

C4_Original ==
    (Called /\ lastFilter.before.targetGroups = <<>>) => lastFilter.ret = TRUE

\* C4 amended: with targetGroups empty the call returns true for every group
\* when logAllGroupsIfEmpty is true or unset, and false for every group when
\* it is false.
C4_EmptyFollowsSetting ==
    (Called /\ lastFilter.before.targetGroups = <<>>) =>
        /\ lastFilter.before.settings.logAllGroupsIfEmpty # "false"
             => lastFilter.ret = TRUE
        /\ lastFilter.before.settings.logAllGroupsIfEmpty = "false"
             => lastFilter.ret = FALSE

C4_Witness ==
    /\ Called
    /\ lastFilter.before.targetGroups = <<>>
    /\ lastFilter.before.settings.logAllGroupsIfEmpty = "false"
    /\ lastFilter.ret = FALSE

\* C5: a disabled entry never matches and is never memoized: its id is left
\* as it was, and a group that only disabled entries match (by id or by
\* name) is not monitored when some entry is enabled; with every entry
\* disabled the result is the fallback setting alone.
C5_DisabledNeverMatch ==
    Called =>
        LET b == lastFilter.before
        IN  /\ \A i \in Entries(b) :
                   Disabled(b, i) => lastFilter.after.targetGroups[i] = b.targetGroups[i]
            /\ (SomeEnabled(b)
                /\ Matching(b, lastFilter.groupId, lastFilter.groupName) = {})
                   => lastFilter.ret = FALSE
            /\ (~SomeEnabled(b) /\ b.settings.logAllGroupsIfEmpty = "false")
                   => lastFilter.ret = FALSE

C5_Witness ==
    /\ Called
    /\ SomeEnabled(lastFilter.before)
    /\ \E i \in Entries(lastFilter.before) :
           /\ Disabled(lastFilter.before, i)
           /\ lastFilter.before.targetGroups[i].id = lastFilter.groupId
           /\ lastFilter.before.targetGroups[i].name = lastFilter.groupName
    /\ lastFilter.ret = FALSE

\* C6: among the enabled entries in list order, the first one whose id
\* equals groupId or whose name equals groupName under the case rule decides:
\* the result is true, only that entry may change (its id is set to groupId
\* if it was unset), and with no such entry the result is false and nothing
\* changes.
C6_FirstMatchDecides ==
    (Called /\ SomeEnabled(lastFilter.before)) =>
        LET b == lastFilter.before
            m == Matching(b, lastFilter.groupId, lastFilter.groupName)
        IN  IF m = {}
            THEN lastFilter.ret = FALSE /\ lastFilter.after = b /\ lastFilter.saved = 0
            ELSE /\ lastFilter.ret = TRUE
                 /\ lastFilter.after =
                      IF b.targetGroups[Least(m)].id = NoId
                      THEN WithId(b, Least(m), lastFilter.groupId)
                      ELSE b

C6_Witness ==
    /\ Called
    /\ Cardinality(Matching(lastFilter.before, lastFilter.groupId,
                            lastFilter.groupName)) = 2
    /\ \A i \in Entries(lastFilter.before) :
           lastFilter.before.targetGroups[i].id = NoId
    /\ lastFilter.after.targetGroups[1].id = lastFilter.groupId
    /\ lastFilter.after.targetGroups[2].id = NoId

\* C7: with caseSensitiveGroupNames false or unset, an enabled entry whose
\* name differs from groupName only in letter case matches; with it true
\* such a pair does not match: only an id match or an exactly equal name
\* gives true.
C7_CaseRule ==
    (Called /\ SomeEnabled(lastFilter.before)) =>
        LET b == lastFilter.before
            on == { i \in Entries(b) : ~Disabled(b, i) }
        IN  /\ (b.settings.caseSensitiveGroupNames \in {"false", "undefined"}
                /\ \E i \in on :
                       DifferOnlyInCase(b.targetGroups[i].name, lastFilter.groupName))
                   => lastFilter.ret = TRUE
            /\ b.settings.caseSensitiveGroupNames = "true"
                   => lastFilter.ret =
                        (\E i \in on : \/ MatchesById(b, i, lastFilter.groupId)
                                       \/ b.targetGroups[i].name = lastFilter.groupName)

C7_Witness ==
    /\ Called
    /\ lastFilter.before.settings.caseSensitiveGroupNames = "false"
    /\ Len(lastFilter.before.targetGroups) = 1
    /\ lastFilter.before.targetGroups[1].name = TeamChat
    /\ lastFilter.before.targetGroups[1].id = NoId
    /\ lastFilter.before.targetGroups[1].enabled = "true"
    /\ lastFilter.groupName = teamchat
    /\ lastFilter.ret = TRUE

\* the same pair under caseSensitiveGroupNames = true: no match
C7_WitnessSensitive ==
    /\ Called
    /\ lastFilter.before.settings.caseSensitiveGroupNames = "true"
    /\ Len(lastFilter.before.targetGroups) = 1
    /\ lastFilter.before.targetGroups[1].name = TeamChat
    /\ lastFilter.before.targetGroups[1].id = NoId
    /\ lastFilter.before.targetGroups[1].enabled = "true"
    /\ lastFilter.groupName = teamchat
    /\ lastFilter.ret = FALSE

\* an enabled entry with its id set to another group's id and its name equal
\* to groupName, and no other enabled entry matching the call
OnlyStaleNameMatch(b, groupId, groupName) ==
    /\ Matching(b, groupId, groupName) # {}
    /\ \A i \in Matching(b, groupId, groupName) :
           /\ b.targetGroups[i].id # NoId
           /\ b.targetGroups[i].id # groupId

\* C8 as stated: an entry whose id is set does not match a group with a
\* different groupId merely because the names are equal.
C8_Original ==
    (Called /\ OnlyStaleNameMatch(lastFilter.before, lastFilter.groupId,
                                  lastFilter.groupName))
        => lastFilter.ret = FALSE

\* C8 amended: an entry is matched by id once its id is set, and it goes on
\* matching by name: a group with a different groupId whose name equals the
\* entry's name is still monitored, and the entry keeps the id it has.
C8_NameStillMatches ==
    Called =>
        LET b == lastFilter.before
        IN  /\ \A i \in Entries(b) :
                   (~Disabled(b, i) /\ MatchesById(b, i, lastFilter.groupId))
                       => lastFilter.ret = TRUE
            /\ OnlyStaleNameMatch(b, lastFilter.groupId, lastFilter.groupName)
                   => lastFilter.ret = TRUE /\ lastFilter.after = b
            /\ \A i \in Entries(b) :
                   b.targetGroups[i].id # NoId
                       => lastFilter.after.targetGroups[i].id = b.targetGroups[i].id

C8_Witness ==
    /\ Called
    /\ OnlyStaleNameMatch(lastFilter.before, lastFilter.groupId, lastFilter.groupName)
    /\ lastFilter.ret = TRUE
    /\ lastFilter.after = lastFilter.before

----------------------------------------------------------------------------
(* Claims about the filter inside the running bot: memoization, the config  *)
(* file, reconnects                                                         *)

\* C1: for the enabled entry with id unset that a call matches by name, the
\* call returns true, sets the entry's id to groupId and schedules exactly
\* one config write; every later call with the same arguments returns true,
\* leaves the config as it is and schedules no write, whichever message
\* batches the calls come from.
C1_MemoizationIdempotent ==
    Called =>
        LET b == lastFilter.before
            m == Matching(b, lastFilter.groupId, lastFilter.groupName)
        IN  /\ (/\ m # {}
                /\ b.targetGroups[Least(m)].id = NoId
                /\ \A t \in lastFilter.known : t[1] # Least(m))
                   => /\ lastFilter.ret = TRUE
                      /\ lastFilter.after = WithId(b, Least(m), lastFilter.groupId)
                      /\ lastFilter.saved = 1
            /\ (\E i \in Entries(b) :
                    <<i, lastFilter.groupId, lastFilter.groupName>> \in lastFilter.known)
                   => /\ lastFilter.ret = TRUE
                      /\ lastFilter.after = b
                      /\ lastFilter.saved = 0

\* C2: an entry's id, once set, is never cleared and never replaced by a
\* different value, by any step of the bot: a message processed, a config
\* write settling either way, a reconnect.
C2_IdNeverClearedOrReplaced ==
    [][ (ConfigLoaded /\ ConfigLoaded') =>
            \A i \in Entries(config) :
                config.targetGroups[i].id # NoId =>
                    /\ i \in Entries(config')
                    /\ config'.targetGroups[i].id = config.targetGroups[i].id ]_vars

InMessage(h) == handlers[h].pc \notin {"idle", "done"}

\* the step is callback h taking the filter's decision for its message
Decides(h) ==
    /\ handlers[h].pc \in {"groupMetadata", "discoverGroupInfo"}
    /\ handlers'[h].pc \notin {"groupMetadata", "discoverGroupInfo"}

\* the step is callback h leaving the message it is in
Leaves(h) == InMessage(h) /\ handlers'[h].k # handlers[h].k

IsRequest(msg) ==
    IsTextMessage(msg) /\ parseDistributionRequest(ExtractContent(msg)).matched

\* C9: config persistence is fire-and-forget. The step in which the filter
\* memoizes an id hands the callback its decision (true) with the write still
\* pending; the settling of a write, successful or failed, leaves the
\* in-memory config, the recorded decision, every callback and the log file
\* as they are; and the callback whose message caused the write leaves that
\* message only from saveMessageToFile, after the console entry and, for a
\* distribution request, after its one reply.
C9_FireAndForget ==
    [][ /\ \A h \in Handlers :
               (Decides(h) /\ Len(pendingWrites') > Len(pendingWrites)) =>
                   /\ lastFilter'.ret = TRUE
                   /\ handlers'[h].pc = "onWhatsApp"
                   /\ pendingWrites' = Append(pendingWrites, config')
        /\ Len(pendingWrites') < Len(pendingWrites) =>
               /\ config' = config
               /\ lastFilter' = lastFilter
               /\ handlers' = handlers
               /\ logFile' = logFile
        /\ \A h \in Handlers :
               (Leaves(h) /\ handlers[h].saved = 1) =>
                   /\ handlers[h].pc \in {"readLog", "writeLog"}
                   /\ handlers[h].logged
                   /\ IsRequest(Msg(h)) => handlers[h].replies = 1 ]_vars

\* a callback whose filter call memoized the id has been through the console
\* entry and the reply and is about to write the log file, while the config
\* write has failed: nothing is pending, the file has no id, the config has
C9_Witness ==
    \E h \in Handlers :
        /\ handlers[h].pc = "writeLog"
        /\ handlers[h].saved = 1
        /\ handlers[h].logged
        /\ handlers[h].replies = 1
        /\ pendingWrites = <<>>
        /\ configFile \in FileConfigs
        /\ configFile.targetGroups[1].id = NoId
        /\ ConfigLoaded
        /\ config.targetGroups[1].id = Msg(h).remoteJid

----------------------------------------------------------------------------
(* Claims about distribution requests, stated on the callback's record of   *)
(* the message it is in: the calls it has made (parses, lists, adds,        *)
(* replies), the list it got, the add-tester request, the result, the reply *)

\* callback h is in a message and stands at the await named at
Awaits(h, at) == handlers[h].pc = at

\* callback h has handed its reply to sock.sendMessage
Replied(h) == Awaits(h, "sendMessage")

AppId(platform) == config.firebase[AppIdKey(platform)]

\* callback h listed the releases and got a non-empty list
GotReleases(h) == handlers[h].lists = 1 /\ handlers[h].listed.releases # <<>>

\* C12 as stated: a valid request in a monitored group, with the platform's
\* app id configured and a non-empty release list, gives exactly one
\* add-tester request, for the first release of the list, and exactly one
\* reply, which begins with the check mark.
C12_Original ==
    \A h \in Handlers :
        (Replied(h) /\ IsRequest(Msg(h)) /\ GotReleases(h)) =>
            /\ handlers[h].adds = 1
            /\ handlers[h].addRequest.releaseId =
                   AfterLast(handlers[h].listed.releases[1].name, "/")
            /\ handlers[h].replies = 1
            /\ handlers[h].reply.prefix = CheckMark

\* C12 amended: such a request gives exactly one listing call and exactly one
\* add-tester request, for the first release of the list (its id the last
\* path segment of the release name), the email of the message and the
\* platform's app id, and exactly one reply, to the group of the message,
\* which begins with the check mark if the add-tester request succeeded and
\* with the cross mark if it failed.
C12_OneAddOneReply ==
    \A h \in Handlers :
        /\ handlers[h].lists <= 1 /\ handlers[h].adds <= 1 /\ handlers[h].replies <= 1
        /\ (Replied(h) /\ IsRequest(Msg(h)) /\ GotReleases(h)) =>
               /\ handlers[h].adds = 1
               /\ handlers[h].addRequest =
                      [ releaseId |-> AfterLast(handlers[h].listed.releases[1].name, "/"),
                        emails |-> <<parseDistributionRequest(ExtractContent(Msg(h))).email>>,
                        appId |-> AppId(handlers[h].request.platform) ]
               /\ handlers[h].replies = 1
               /\ handlers[h].reply.to = Msg(h).remoteJid
               /\ handlers[h].reply.prefix = CheckMark <=> handlers[h].result.success
               /\ handlers[h].result.success \/ handlers[h].reply.prefix = CrossMark
        /\ (Awaits(h, "addTesters") /\ IsRequest(Msg(h))) =>
               GotReleases(h) /\ handlers[h].adds = 1 /\ handlers[h].replies = 0

\* the request of "a@b.com-android" has been answered with the check mark,
\* the add-tester request having gone to release r1, first of <<R1, R2>>
C12_Witness ==
    \E h \in Handlers :
        /\ Replied(h)
        /\ ExtractContent(Msg(h)) = ABAndroid
        /\ handlers[h].listed.releases = <<R1, R2>>
        /\ handlers[h].addRequest.releaseId = <<"r","1">>
        /\ handlers[h].adds = 1
        /\ handlers[h].replies = 1
        /\ handlers[h].reply.prefix = CheckMark

\* the request callback h's message encodes
RequestOf(h) == parseDistributionRequest(ExtractContent(Msg(h)))

\* the config key of the platform's app id, as the spec names it
KeyOf(platform) == IF platform = Ios THEN "iosAppId" ELSE "androidAppId"

\* callback h is in a request whose platform has no app id in the config
AppIdAbsent(h) ==
    /\ InMessage(h)
    /\ IsRequest(Msg(h))
    /\ ~Truthy(config.firebase[KeyOf(RequestOf(h).platform)])

NoAppIdResult(platform) ==
    [ success |-> FALSE,
      message |-> [ text |-> "No app ID configured in config.json",
                    platform |-> platform,
                    appIdKey |-> KeyOf(platform) ] ]

\* C13 as stated: whenever the platform's app id is absent from the config,
\* the result is a failure whose message names the missing key, and no
\* listing and no add-tester call is made.
C13_Original ==
    \A h \in Handlers :
        AppIdAbsent(h) =>
            /\ handlers[h].lists = 0 /\ handlers[h].adds = 0
            /\ Replied(h) => handlers[h].result = NoAppIdResult(RequestOf(h).platform)

\* C13 amended: with the platform's app id absent no listing and no
\* add-tester call is made; the result is a failure whose message names the
\* missing key (androidAppId or iosAppId) when Firebase is initialized, and
\* the failure "Firebase not initialized" when it is not.
C13_MissingAppId ==
    \A h \in Handlers :
        AppIdAbsent(h) =>
            /\ handlers[h].lists = 0 /\ handlers[h].adds = 0
            /\ Replied(h) =>
                   /\ handlers[h].result.success = FALSE
                   /\ firebaseApp =>
                          handlers[h].result = NoAppIdResult(RequestOf(h).platform)
                   /\ ~firebaseApp =>
                          handlers[h].result.message = [ text |-> "Firebase not initialized" ]

\* an ios request with iosAppId missing and androidAppId configured
C13_Witness ==
    \E h \in Handlers :
        /\ Replied(h)
        /\ AppIdAbsent(h)
        /\ firebaseApp
        /\ Truthy(config.firebase.androidAppId)
        /\ handlers[h].result.message.appIdKey = "iosAppId"
        /\ handlers[h].lists = 0

NotInitializedResult ==
    [ success |-> FALSE, message |-> [ text |-> "Firebase not initialized" ] ]

\* the step is callback h entering the dispatcher for the request of its message
Dispatches(h) ==
    /\ Awaits(h, "onWhatsApp")
    /\ handlers'[h] # handlers[h]
    /\ IsRequest(Msg(h))

\* C14: while firebaseApp is unset (initializeFirebase found no usable key
\* file), a request entering the dispatcher gets the failure "Firebase not
\* initialized" as its one reply, without a listing or an add-tester call;
\* no callback has made a listing call unless Firebase is initialized.
C14_NotInitialized ==
    /\ [](\A h \in Handlers : handlers[h].lists + handlers[h].adds > 0 => firebaseApp)
    /\ [][ \A h \in Handlers :
               (Dispatches(h) /\ ~firebaseApp) =>
                   /\ handlers'[h].pc = "sendMessage"
                   /\ handlers'[h].result = NotInitializedResult
                   /\ handlers'[h].reply.prefix = CrossMark
                   /\ handlers'[h].lists = 0
                   /\ handlers'[h].adds = 0 ]_vars

\* the bot has started on a config whose key file is not on disk, and a
\* request has been answered "Firebase not initialized"
C14_Witness ==
    \E h \in Handlers :
        /\ Replied(h)
        /\ IsRequest(Msg(h))
        /\ boot = "running"
        /\ config.firebase.serviceAccountKeyPath \notin KeyFiles
        /\ ~firebaseApp
        /\ handlers[h].result = NotInitializedResult
        /\ handlers[h].lists = 0

NoReleasesResult(platform) ==
    [ success |-> FALSE,
      message |-> [ text |-> "No releases found for app", platform |-> platform ] ]

\* callback h listed the releases and the list came back empty
GotNoReleases(h) ==
    /\ handlers[h].lists = 1
    /\ ~handlers[h].listed.failed
    /\ handlers[h].listed.releases = <<>>

\* C15: when the listing returns an empty list, the result is the failure
\* "No releases found" for the platform of the request, sent as the one
\* reply; and an add-tester request is only ever issued in the step in which
\* the listing returned a list that is not empty.
C15_NoReleases ==
    /\ [](\A h \in Handlers :
              (Replied(h) /\ GotNoReleases(h)) =>
                  /\ handlers[h].result = NoReleasesResult(RequestOf(h).platform)
                  /\ handlers[h].reply.prefix = CrossMark
                  /\ handlers[h].adds = 0)
    /\ [][ \A h \in Handlers :
               handlers'[h].adds > handlers[h].adds =>
                   /\ Awaits(h, "listReleases")
                   /\ handlers'[h].listed.releases # <<>> ]_vars

\* an ios request for which the listing returned no release
C15_Witness ==
    \E h \in Handlers :
        /\ Replied(h)
        /\ GotNoReleases(h)
        /\ RequestOf(h).platform = Ios
        /\ handlers[h].result = NoReleasesResult(Ios)
        /\ handlers[h].adds = 0

\* the message of a result carries the upstream error text e: the text of
\* the error it was built from
Embeds(message, e) ==
    /\ "error" \in DOMAIN message
    /\ message.error.error = e

\* C16: when the listing call fails, the result is a failure whose message
\* embeds the error text of that failure.
C16_ListFailureEmbedsError ==
    \A h \in Handlers :
        (Replied(h) /\ handlers[h].lists = 1 /\ handlers[h].listed.failed) =>
            /\ handlers[h].result.success = FALSE
            /\ Embeds(handlers[h].result.message, handlers[h].listed.error)

\* C17: when the add-tester call fails, addTesterToDistribution does not
\* throw: the callback goes on to the reply; the result is a failure whose
\* message embeds the error text of the failed call, and the one reply, to
\* the group of the message, is the cross mark and that message.
C17_AddFailureReported ==
    /\ [](\A h \in Handlers :
              (Replied(h) /\ handlers[h].adds = 1 /\ handlers[h].added.failed) =>
                  /\ handlers[h].result.success = FALSE
                  /\ Embeds(handlers[h].result.message, handlers[h].added.error)
                  /\ handlers[h].replies = 1
                  /\ handlers[h].reply = [ to |-> Msg(h).remoteJid,
                                           prefix |-> CrossMark,
                                           message |-> handlers[h].result.message ])
    /\ [][ \A h \in Handlers :
               (Awaits(h, "addTesters") /\ handlers'[h] # handlers[h]) =>
                   Replied(h)' ]_vars

C17_Witness ==
    \E h \in Handlers :
        /\ Replied(h)
        /\ handlers[h].added.failed
        /\ handlers[h].added.error = "PERMISSION_DENIED"
        /\ handlers[h].result.message.error.error = "PERMISSION_DENIED"
        /\ handlers[h].reply.prefix = CrossMark

\* C18: a request is dispatched once and never retried. For the message a
\* callback is in, the parser is called at most once, at most one listing
\* and at most one add-tester request are issued and at most one reply is
\* sent; a listing is only issued on entering the dispatcher, an add-tester
\* request only on the listing's answer, and whatever a listing or an
\* add-tester call answers, failures included, the next step is the
\* add-tester request or the reply, never the same call again.
C18_NoRetry ==
    /\ [](\A h \in Handlers :
              /\ handlers[h].parses <= 1
              /\ handlers[h].lists <= handlers[h].parses
              /\ handlers[h].adds <= handlers[h].lists
              /\ handlers[h].replies <= handlers[h].parses)
    /\ [][ \A h \in Handlers :
               /\ handlers'[h].lists > handlers[h].lists => Awaits(h, "onWhatsApp")
               /\ handlers'[h].adds > handlers[h].adds => Awaits(h, "listReleases")
               /\ (Awaits(h, "listReleases") /\ handlers'[h] # handlers[h]) =>
                      /\ handlers'[h].lists = handlers[h].lists
                      /\ handlers'[h].pc \in {"addTesters", "sendMessage"}
               /\ (Awaits(h, "addTesters") /\ handlers'[h] # handlers[h]) =>
                      /\ handlers'[h].lists = handlers[h].lists
                      /\ handlers'[h].adds = handlers[h].adds
                      /\ handlers'[h].pc = "sendMessage" ]_vars

\* two callbacks in flight: the listing of one failed, the add-tester call
\* of the other failed; each has made its calls once and is at its reply
C18_Witness ==
    \E h, g \in Handlers :
        /\ Replied(h) /\ handlers[h].listed.failed
        /\ handlers[h].lists = 1 /\ handlers[h].adds = 0
        /\ Replied(g) /\ handlers[g].added.failed
        /\ handlers[g].lists = 1 /\ handlers[g].adds = 1

\* callback h is past processDistributionRequest for its message, or at
\* the reply that ends it
PastDispatch(h) == handlers[h].pc \in {"sendMessage", "readLog", "writeLog"}

\* C19: for a message whose text is handed to processDistributionRequest,
\* exactly one reply is attempted if the text parses as a request and none
\* if it does not; the reply goes to the group of the message, and its text
\* is the check mark and result.message if and only if the result has
\* success = true, the cross mark and result.message otherwise.
C19_OneReplyWithMark ==
    \A h \in Handlers :
        /\ handlers[h].replies <= 1
        /\ (PastDispatch(h) /\ handlers[h].parses = 1) =>
               handlers[h].replies = (IF RequestOf(h).matched THEN 1 ELSE 0)
        /\ Replied(h) =>
               /\ RequestOf(h).matched
               /\ handlers[h].reply.to = Msg(h).remoteJid
               /\ handlers[h].reply.message = handlers[h].result.message
               /\ handlers[h].result.success => handlers[h].reply.prefix = CheckMark
               /\ ~handlers[h].result.success => handlers[h].reply.prefix = CrossMark

\* the reply to a request that could not be served starts with the cross mark
C19_Witness ==
    \E h \in Handlers :
        /\ Replied(h)
        /\ handlers[h].replies = 1
        /\ handlers[h].reply.to = G1
        /\ handlers[h].result = NoReleasesResult(Android)
        /\ handlers[h].reply.prefix = CrossMark

\* a text that is no request has been through the parser and got no reply
C19_WitnessNoReply ==
    \E h \in Handlers :
        /\ Awaits(h, "readLog")
        /\ ExtractContent(Msg(h)) = ABWindows
        /\ handlers[h].parses = 1
        /\ handlers[h].replies = 0

\* callback h is in a message that is neither plain text nor extended text
InNonText(h) ==
    InMessage(h) /\ Msg(h).kind \notin {"conversation", "extendedTextMessage"}

\* C20: a message of another type (image, video, audio, document, sticker,
\* other) accepted from a monitored group is never handed to the parser and
\* never dispatched, whatever its caption or file name: no parser call, no
\* listing, no add-tester request, no reply; it goes from the console entry
\* straight to saveMessageToFile, which appends its entry, content in the
\* bracketed form, to the day's entries.
C20_NonTextNeverParsed ==
    \A h \in Handlers :
        InNonText(h) =>
            /\ handlers[h].parses = 0
            /\ handlers[h].lists = 0 /\ handlers[h].adds = 0
            /\ handlers[h].replies = 0
            /\ handlers[h].pc \in {"groupMetadata", "onWhatsApp", "readLog", "writeLog"}
            /\ PastDispatch(h) => handlers[h].logged
            /\ Awaits(h, "writeLog") =>
                   /\ handlers[h].toWrite # <<>>
                   /\ handlers[h].toWrite[Len(handlers[h].toWrite)] = LogEntry(h)
                   /\ LogEntry(h).content = ExtractContent(Msg(h))
                   /\ Head(LogEntry(h).content) = "["

\* an image whose caption is a valid request is about to be written to the
\* log file, unparsed
C20_Witness ==
    \E h \in Handlers :
        /\ Awaits(h, "writeLog")
        /\ Msg(h).kind = "imageMessage"
        /\ parseDistributionRequest(Msg(h).text).matched
        /\ handlers[h].logged
        /\ handlers[h].parses = 0
        /\ handlers[h].replies = 0

----------------------------------------------------------------------------
(* Claims about the ingestion of a message: the filter's refusal, discovery *)

\* the step is callback h taking the filter's decision for its message: it
\* moves on from the group-name lookup, and not into discoverGroupInfo
FilterStep(h) ==
    /\ handlers[h].pc \in {"groupMetadata", "discoverGroupInfo"}
    /\ handlers'[h] # handlers[h]
    /\ ~(/\ handlers[h].pc = "groupMetadata"
         /\ handlers'[h].pc = "discoverGroupInfo"
         /\ handlers'[h].k = handlers[h].k)

\* callback h has nothing of a message in hand past the group-name lookup:
\* no sender name, no console entry, no parse, no API call, no reply, no
\* log write prepared
NothingDone(hr) ==
    /\ hr.pc \in {"groupMetadata", "done"}
    /\ hr.senderName = <<>>
    /\ ~hr.logged
    /\ hr.parses = 0 /\ hr.lists = 0 /\ hr.adds = 0 /\ hr.replies = 0
    /\ hr.reply = NoReply
    /\ hr.toWrite = <<>>

\* C21: when the filter rejects the group of a message, the callback leaves
\* the message in that very step: it is at a later message of its batch or
\* through the batch, with no sender lookup, console entry, parse, dispatch,
\* reply or log write for the rejected message, and the log file and the
\* other callbacks are as before; the notice "Filtering out message" is
\* printed in that step exactly when the group id was not yet in
\* global.filteredGroups, so no group id ever has more than one notice.
C21_RejectedHalts ==
    /\ [](\A g \in DOMAIN noticed : noticed[g] = 1 /\ g \in filteredGroups)
    /\ [][ \A h \in Handlers :
               (FilterStep(h) /\ ~lastFilter'.ret) =>
                   /\ lastFilter'.groupId = Msg(h).remoteJid
                   /\ NothingDone(handlers'[h])
                   /\ handlers'[h].pc = "groupMetadata" =>
                          /\ handlers'[h].batch = handlers[h].batch
                          /\ handlers'[h].k > handlers[h].k
                   /\ \A g \in Handlers \ {h} : handlers'[g] = handlers[g]
                   /\ logFile' = logFile
                   /\ Msg(h).remoteJid \in filteredGroups'
                   /\ Emitted(noticed', Msg(h).remoteJid) = 1
                   /\ Msg(h).remoteJid \in filteredGroups => noticed' = noticed ]_vars

\* two callbacks have each had a message of group 1 rejected (no group was
\* ever accepted: no id memoized, nothing logged) and the notice for the
\* group has been printed once
C21_Witness ==
    /\ reconnects = 0
    /\ \A h \in Handlers : handlers[h].pc = "done"
    /\ lastFilter.called /\ ~lastFilter.ret
    /\ filteredGroups = {G1}
    /\ Emitted(noticed, G1) = 1
    /\ ConfigLoaded
    /\ \A i \in 1..Len(config.targetGroups) : config.targetGroups[i].id = NoId
    /\ pendingWrites = <<>>
    /\ logFile = LogAbsent

\* the discovery mode of the config file the run was started on
FileDiscoveryMode ==
    /\ configFile \notin {FileAbsent, FileMalformed}
    /\ configFile.settings.discoveryMode = "true"

\* C22: the discovery announcement. A message whose group-name lookup
\* settles goes through discoverGroupInfo exactly when discovery mode is on;
\* when it leaves discoverGroupInfo, accepted or rejected by the filter, its
\* group id has exactly one announcement: printed in that step if the id was
\* not yet in global.discoveredGroups, else the one printed before; nothing
\* else prints an announcement, so no group id ever has two, over every
\* interleaving of callbacks and every reconnect; and a run whose config
\* has discovery mode off prints none.
C22_DiscoveryOncePerGroup ==
    /\ [](\A g \in DOMAIN announced : announced[g] = 1 /\ g \in discoveredGroups)
    /\ [](~FileDiscoveryMode => announced = NoOutput)
    /\ [][ /\ \A h \in Handlers :
                  /\ (handlers[h].pc = "groupMetadata" /\ handlers'[h] # handlers[h]) =>
                         /\ announced' = announced
                         /\ DiscoveryMode <=>
                                (/\ handlers'[h].pc = "discoverGroupInfo"
                                 /\ handlers'[h].k = handlers[h].k)
                  /\ (handlers[h].pc = "discoverGroupInfo" /\ handlers'[h] # handlers[h]) =>
                         /\ FilterStep(h)
                         /\ Emitted(announced', Msg(h).remoteJid) = 1
                         /\ Msg(h).remoteJid \in discoveredGroups => announced' = announced
                         /\ \A g \in DOMAIN announced : announced'[g] = announced[g]
           /\ announced' # announced =>
                  \E h \in Handlers : handlers[h].pc = "discoverGroupInfo"
                                      /\ handlers'[h] # handlers[h] ]_vars

\* after a reconnect, both callbacks have been through discoverGroupInfo with
\* a message of group 1, the filter has rejected the group, and there is one
\* announcement for it
C22_Witness ==
    /\ reconnects = 1
    /\ FileDiscoveryMode
    /\ \A h \in Handlers : handlers[h].pc = "done"
    /\ discoveredGroups = {G1}
    /\ announced = Emit(NoOutput, G1)
    /\ G1 \in filteredGroups

\* the same with the group accepted: its id is memoized in the config
C22_WitnessAccepted ==
    /\ FileDiscoveryMode
    /\ \A h \in Handlers : handlers[h].pc = "done"
    /\ discoveredGroups = {G1}
    /\ announced = Emit(NoOutput, G1)
    /\ filteredGroups = {}
    /\ \E i \in 1..Len(config.targetGroups) : config.targetGroups[i].id = G1

\* the messages of its batch that callback h passes over in the step without
\* entering logGroupMessage: those after the message it leaves (from the
\* start of the batch in the step that receives it) and before the message
\* it takes next
PassedOver(h) ==
    LET batch == IF handlers[h].pc = "idle" THEN handlers'[h].batch
                 ELSE handlers[h].batch
        to == IF handlers'[h].pc = "groupMetadata" /\ handlers'[h].k # handlers[h].k
              THEN handlers'[h].k - 1 ELSE Len(batch)
    IN  IF handlers'[h].k = handlers[h].k THEN {}
        ELSE { batch[j] : j \in (handlers[h].k + 1)..to }

\* the step is callback h receiving a batch
Receives(h) == handlers[h].pc = "idle" /\ handlers'[h].pc # "idle"

\* what a message can change besides the callback's own record
Shared == <<cfgVars, botVars, logFile, discoveredGroups, filteredGroups, announced, noticed>>

\* the entries of the log file that callback h wrote for its batch
EntriesOf(h) ==
    { j \in 1..Len(handlers[h].batch) :
          \E i \in 1..Len(logFile.entries) : logFile.entries[i].messageId = <<h, j>> }

\* C23: a message of the bot's own account (key.fromMe) is passed over: the
\* callback never stands in one (no metadata lookup, no filter call, no
\* dispatch, no reply is made for it) and no log entry is written for one;
\* the step that passes over messages takes up the next message with
\* nothing done for it yet, and a batch that starts with own messages
\* changes nothing but the callback's position.
C23_OwnMessagesDiscarded ==
    /\ [](\A h \in Handlers :
              InMessage(h) =>
                  /\ ~Msg(h).fromMe
                  /\ \A j \in EntriesOf(h) : ~handlers[h].batch[j].fromMe)
    /\ [][ \A h \in Handlers :
               /\ handlers'[h].k # handlers[h].k => NothingDone(handlers'[h])
               /\ (Receives(h) /\ \E m \in PassedOver(h) : m.fromMe) =>
                      /\ UNCHANGED Shared
                      /\ ~Msg(h)'.fromMe ]_vars

\* the callback has passed over the bot's own message at the head of its
\* batch and stands at the second message, its group name not yet looked up;
\* the filter has not been called, no cache and no log file has changed
C23_Witness ==
    \E h \in Handlers :
        /\ handlers[h].pc = "groupMetadata"
        /\ handlers[h].batch[1] = OwnMessage
        /\ handlers[h].k = 2
        /\ lastFilter = NoCall
        /\ config = IngestConfig
        /\ filteredGroups = {} /\ discoveredGroups = {}
        /\ logFile = LogAbsent

\* the conversation is a group: message.key.remoteJid ends with '@g.us'
IsGroup(msg) == Truthy(msg.remoteJid) /\ HasSuffix(msg.remoteJid, GUs)

\* C24: only messages of a group conversation are processed: the callback
\* stands in messages whose remoteJid ends with @g.us only, every log entry
\* it wrote is for such a message, and a step that passes over a direct
\* message without leaving a group message leaves config, caches, console
\* and log file as they are, with no dispatch or reply under way.
C24_OnlyGroupsProcessed ==
    /\ [](\A h \in Handlers :
              InMessage(h) =>
                  /\ IsGroup(Msg(h))
                  /\ \A j \in EntriesOf(h) : IsGroup(handlers[h].batch[j]))
    /\ [][ \A h \in Handlers :
               (Receives(h) /\ \E m \in PassedOver(h) : ~IsGroup(m)) =>
                   /\ UNCHANGED Shared
                   /\ IsGroup(Msg(h)')
                   /\ handlers'[h].lists = 0 /\ handlers'[h].adds = 0
                   /\ handlers'[h].replies = 0 ]_vars

\* the callback has passed over the direct message at the head of its
\* batch and stands at the second message, its group name not yet looked up;
\* the filter has not been called and the unparsable log file is as it was
C24_Witness ==
    \E h \in Handlers :
        /\ handlers[h].pc = "groupMetadata"
        /\ handlers[h].batch[1] = DirectMessage
        /\ handlers[h].k = 2
        /\ lastFilter = NoCall
        /\ logFile = LogCorrupt

\* callback h is past the filter with its message
Accepted(h) ==
    InMessage(h) /\ handlers[h].pc \notin {"groupMetadata", "discoverGroupInfo"}

\* C25: every message that passes the filter has its log entry handed to
\* saveMessageToFile: the callback leaves an accepted message only from
\* saveMessageToFile (the read of the day's file or its write), with the
\* console entry made, whether or not the text parsed and whatever the
\* dispatcher and the reply did.
C25_AlwaysPersisted ==
    [][ \A h \in Handlers :
            (Leaves(h) /\ Accepted(h)) =>
                /\ handlers[h].pc \in {"readLog", "writeLog"}
                /\ handlers[h].logged ]_vars

\* where a callback can stand while no exception has left logGroupMessage
InPipeline ==
    {"idle", "groupMetadata", "discoverGroupInfo", "onWhatsApp", "listReleases",
     "addTesters", "sendMessage", "readLog", "writeLog", "done"}

\* the in-memory config has its three parts, every target group its fields
WellFormed(cfg) ==
    /\ cfg # NullConfig
    /\ DOMAIN cfg = {"targetGroups", "settings", "firebase"}
    /\ DOMAIN cfg.targetGroups = 1..Len(cfg.targetGroups)
    /\ \A i \in 1..Len(cfg.targetGroups) :
           /\ DOMAIN cfg.targetGroups[i] = {"name", "id", "enabled"}
           /\ cfg.targetGroups[i].enabled \in OptBool

\* C26: no failure of one message escapes the pipeline. Whatever failed for
\* the message it leaves (group or contact lookup, the parser, the
\* dispatcher, the reply, the read or the write of the log file), the
\* callback is not rejected: it stands at the next message of its batch that
\* is a group message of another account, nothing done for it yet, or it is
\* through the batch with no such message left; and once a batch has
\* arrived the config is well-formed, the two caches are sets of group ids
\* of delivered messages, each notice printed once.
C26_FailuresContained ==
    /\ [](\A h \in Handlers : handlers[h].pc \in InPipeline)
    /\ [](/\ (\E h \in Handlers : handlers[h].pc # "idle") => WellFormed(config)
          /\ \A g \in filteredGroups \cup discoveredGroups :
                 \E batch \in inbound : \E j \in 1..Len(batch) : batch[j].remoteJid = g
          /\ \A g \in DOMAIN noticed : noticed[g] = 1)
    /\ [][ \A h \in Handlers :
               Leaves(h) =>
                   LET batch == handlers[h].batch
                       k == handlers[h].k
                   IN  /\ handlers'[h].pc \in {"groupMetadata", "done"}
                       /\ NothingDone(handlers'[h])
                       /\ handlers'[h].pc = "groupMetadata" =>
                              /\ handlers'[h].batch = batch
                              /\ handlers'[h].k > k
                              /\ ~Msg(h)'.fromMe /\ IsGroup(Msg(h)')
                              /\ \A j \in (k + 1)..(handlers'[h].k - 1) :
                                     batch[j].fromMe \/ ~IsGroup(batch[j])
                       /\ handlers'[h].pc = "done" =>
                              \A j \in (k + 1)..Len(batch) :
                                  batch[j].fromMe \/ ~IsGroup(batch[j]) ]_vars

\* the first message of the batch, a text message without text, was accepted
\* by the filter and made the parser throw; the callback stands at the
\* second message
C26_Witness ==
    \E h \in Handlers :
        /\ handlers[h].pc = "groupMetadata"
        /\ handlers[h].k = 2
        /\ handlers[h].batch[1] = NoTextMessage
        /\ lastFilter.called /\ lastFilter.ret
        /\ lastFilter.groupId = G1

----------------------------------------------------------------------------
(* Claims about start and reconnect *)

\* the step is a connection.update with connection === 'close'
Closes == connection \in {"connecting", "open"} /\ connection' \notin {"connecting", "open"}

\* C27: reconnect. A close that is no logout schedules one timer (none was
\* pending) and leaves the running bot as it is; the pending timer
\* eventually fires, and its firing is one full start: startWhatsAppBot from
\* loadConfig on, counted once; a close by logout schedules no timer, and
\* from then on the run stays logged out with no timer and no further start.
C27_ReconnectUnlessLoggedOut ==
    /\ [][ Closes =>
               /\ ~timer
               /\ connection' \in {"close", "loggedOut"}
               /\ timer' <=> connection' = "close"
               /\ boot' = boot /\ reconnects' = reconnects ]_vars
    /\ [][ reconnects' # reconnects =>
               /\ timer /\ ~timer'
               /\ connection = "close"
               /\ reconnects' = reconnects + 1
               /\ boot' = "loadConfig" ]_vars
    /\ \A n \in 0..MaxReconnects :
           (timer /\ reconnects = n) ~> (~timer /\ reconnects = n + 1)
    /\ [](connection = "loggedOut" => ~timer)
    /\ [][ connection = "loggedOut" =>
               /\ connection' = "loggedOut"
               /\ boot' = boot /\ reconnects' = reconnects ]_vars

\* the connection was closed without a logout and the timer has fired:
\* startWhatsAppBot runs again, at loadConfig, the old socket still closed
C27_Witness ==
    /\ reconnects = 1
    /\ boot = "loadConfig"
    /\ connection = "close"
    /\ ~timer

\* the connection of the second start was closed by a logout: no timer
C27_WitnessLoggedOut ==
    /\ reconnects = 1
    /\ connection = "loggedOut"
    /\ ~timer

\* the step is loadConfig returning
Loads == boot = "loadConfig" /\ boot' # "loadConfig"

\* C28: loading the config never fails the run. loadConfig always returns
\* and initializeFirebase follows; with the file absent the config is the
\* default config (no target groups, logAllGroupsIfEmpty true,
\* caseSensitiveGroupNames false, discoveryMode false) and the file is
\* written with it (or, the write failing, still absent); with the file
\* unreadable or malformed the config is the same default and the file is
\* left alone; and the config loaded is never null and has a targetGroups
\* list of entries.
C28_LoadNeverFails ==
    [][ Loads =>
            /\ boot' = "initializeFirebase"
            /\ configFile \in {FileAbsent, FileMalformed} =>
                   /\ config' = DefaultConfig
                   /\ config'.targetGroups = <<>>
                   /\ config'.settings = [ logAllGroupsIfEmpty |-> "true",
                                           caseSensitiveGroupNames |-> "false",
                                           discoveryMode |-> "false" ]
            /\ configFile = FileAbsent => configFile' \in {DefaultConfig, FileAbsent}
            /\ configFile # FileAbsent => configFile' = configFile
            /\ WellFormed(config') ]_vars

----------------------------------------------------------------------------
(* Claims about the day's log file *)

\* what saveMessageToFile finds in the file: its entries, none when the file
\* is absent or cannot be parsed
Readable(file) == IF file.file = "array" THEN file.entries ELSE <<>>

\* C29: the day's log is appended to. saveMessageToFile prepares the entries
\* readable in the file, in their order, followed by the new entry, and
\* touches nothing yet; its write leaves the file holding exactly that, the
\* new entry last (the new entry alone when the file was absent or not
\* parsable), or, the write failing, leaves the file as it was; either way
\* the callback goes on to its next message; and nothing else changes the
\* file, so every change of the file keeps the entries it held, in their
\* order, and adds one at the end.
C29_AppendOnly ==
    [][ /\ \A h \in Handlers :
               /\ (handlers[h].pc = "readLog" /\ handlers'[h].pc = "writeLog") =>
                      /\ handlers'[h].toWrite = Readable(logFile) \o <<LogEntry(h)>>
                      /\ logFile' = logFile
               /\ (handlers[h].pc = "writeLog" /\ handlers'[h] # handlers[h]) =>
                      /\ logFile' \in {logFile, LogOf(Readable(logFile) \o <<LogEntry(h)>>)}
                      /\ logFile.file # "array" /\ logFile' # logFile =>
                             logFile'.entries = <<LogEntry(h)>>
                      /\ handlers'[h].pc \in {"groupMetadata", "done"}
                      /\ handlers'[h].k # handlers[h].k
        /\ logFile' # logFile =>
               /\ logFile'.file = "array"
               /\ Len(logFile'.entries) = Len(Readable(logFile)) + 1
               /\ SubSeq(logFile'.entries, 1, Len(Readable(logFile))) = Readable(logFile)
               /\ \E h \in Handlers :
                      /\ handlers[h].pc = "writeLog"
                      /\ logFile'.entries[Len(logFile'.entries)] = LogEntry(h) ]_vars

\* the log file holds the entry of the message callback h is in
Persisted(h) ==
    \E i \in 1..Len(logFile.entries) :
        logFile.entries[i].messageId = <<h, handlers[h].k>>

\* callback h has handed the request of its message to
\* addTesterToDistribution: it awaits one of its calls or the reply, or is
\* back from them
Dispatched(h) ==
    \/ handlers[h].pc \in {"listReleases", "addTesters", "sendMessage"}
    \/ handlers[h].lists > 0
    \/ handlers[h].replies > 0

\* C30: the order of a message's states. Once the request of a message is
\* dispatched, the log record of the message has been put on the console and
\* is in the day's log file: LOGGED and PERSISTED come before the dispatch
\* and the reply.
C30_PersistedBeforeDispatch ==
    \A h \in Handlers :
        (InMessage(h) /\ Dispatched(h)) => (handlers[h].logged /\ Persisted(h))

----------------------------------------------------------------------------
(* Claims about overlapping batches and about the config over a run *)

\* the callbacks that are inside a message
InFlight == { h \in Handlers : InMessage(h) }

\* C31: message processing is strictly sequential over all batches: no two
\* messages are in flight at the same time, also when a batch arrives while
\* a message of an earlier batch waits on an external call.
C31_StrictlySequential == Cardinality(InFlight) <= 1

\* C32: the configuration is loaded once, at startup: once it is loaded
\* loadConfig does not run again, in particular not after a reconnect, and
\* no step replaces the settings or the list of target groups (the filter
\* setting the id of an entry apart).
C32_LoadedOnce ==
    [][ ConfigLoaded =>
            /\ ~Loads
            /\ config'.settings = config.settings
            /\ Len(config'.targetGroups) = Len(config.targetGroups)
            /\ \A i \in 1..Len(config.targetGroups) :
                   /\ config'.targetGroups[i].name = config.targetGroups[i].name
                   /\ config.targetGroups[i].id # NoId =>
                          config'.targetGroups[i].id = config.targetGroups[i].id ]_vars

\* callback g is inside the dispatcher with the same request (email and
\* platform) as the message callback h is in
SameRequestInFlight(h, g) ==
    /\ g # h
    /\ InMessage(h) /\ IsRequest(Msg(h))
    /\ InMessage(g) /\ IsRequest(Msg(g))
    /\ handlers[g].pc \in {"listReleases", "addTesters", "sendMessage"}
    /\ RequestOf(g) = RequestOf(h)

\* C33: two requests for the same email and platform in flight at once are
\* not deduplicated. While another callback is inside the dispatcher with
\* the same request, a callback entering the dispatcher (Firebase
\* initialized, app id configured) issues its own listing call; a listing
\* that gives releases is followed by its own add-tester call for the one
\* email; and it sends its own reply to the group of its message; none of
\* these steps touches the other callback.
C33_NotDeduplicated ==
    [][ \A h \in Handlers : \A g \in Handlers :
            (SameRequestInFlight(h, g) /\ handlers'[h] # handlers[h]) =>
                /\ handlers'[g] = handlers[g]
                /\ (Awaits(h, "onWhatsApp") /\ firebaseApp
                    /\ Truthy(AppId(RequestOf(h).platform))) =>
                       /\ handlers'[h].pc = "listReleases"
                       /\ handlers'[h].lists = 1
                /\ (Awaits(h, "listReleases") /\ handlers'[h].listed.releases # <<>>) =>
                       /\ handlers'[h].pc = "addTesters"
                       /\ handlers'[h].adds = 1
                       /\ handlers'[h].addRequest.emails = <<RequestOf(h).email>>
                /\ (Awaits(h, "listReleases") /\ handlers'[h].listed.releases = <<>>) =>
                       /\ handlers'[h].pc = "sendMessage"
                       /\ handlers'[h].replies = 1
                /\ Awaits(h, "addTesters") =>
                       /\ handlers'[h].pc = "sendMessage"
                       /\ handlers'[h].replies = 1
                       /\ handlers'[h].reply.to = Msg(h).remoteJid ]_vars

\* both callbacks have the request a@b.com-android of group 1 in hand and
\* each has listed the releases, added the tester and handed over its reply
C33_Witness ==
    /\ \A h \in Handlers :
           /\ Replied(h)
           /\ Msg(h).text = ABAndroid
           /\ handlers[h].lists = 1
           /\ handlers[h].adds = 1
           /\ handlers[h].replies = 1
           /\ handlers[h].result.success
    /\ handlers[1].addRequest = handlers[2].addRequest

----------------------------------------------------------------------------
(* Claims about lookups, the release chosen, the replies *)

\* senderId.split('@')[0]
LocalPart(senderId) == UpTo(senderId, "@")

\* C34: lookup failures are replaced by fallbacks and the message goes on.
\* When the group-name lookup settles, the name the filter is called with
\* (or that is taken into discoverGroupInfo and then to the filter) is the
\* group's subject or, the lookup failing, the raw group id, and an accepted
\* message carries that name on; when the sender lookup settles, the sender
\* name is the contact's notify name or, the lookup failing or giving
\* nothing, the text of the sender id before '@', and the message goes on to
\* its console entry and, unless the parser throws, to the dispatcher or
\* the log file; the entry prepared for the file has these two names.
C34_LookupFallbacks ==
    [][ \A h \in Handlers :
            LET groupId == Msg(h).remoteJid
                senderId == Msg(h).participant
            IN  /\ (Awaits(h, "groupMetadata") /\ handlers'[h] # handlers[h]) =>
                       /\ FilterStep(h) =>
                              /\ lastFilter'.groupId = groupId
                              /\ lastFilter'.groupName \in {Subject(groupId), groupId}
                              /\ lastFilter'.ret =>
                                     /\ handlers'[h].pc = "onWhatsApp"
                                     /\ handlers'[h].groupName = lastFilter'.groupName
                       /\ ~FilterStep(h) =>
                              handlers'[h].groupName \in {Subject(groupId), groupId}
                /\ (Awaits(h, "discoverGroupInfo") /\ handlers'[h] # handlers[h]) =>
                       /\ lastFilter'.groupName = handlers[h].groupName
                       /\ lastFilter'.ret => handlers'[h].groupName = handlers[h].groupName
                /\ (Awaits(h, "onWhatsApp") /\ handlers'[h].k = handlers[h].k
                    /\ handlers'[h] # handlers[h]) =>
                       /\ handlers'[h].senderName \in {Notify, LocalPart(senderId)}
                       /\ "notify" \notin Contacts(senderId) =>
                              handlers'[h].senderName = LocalPart(senderId)
                       /\ handlers'[h].groupName = handlers[h].groupName
                       /\ handlers'[h].logged
                       /\ handlers'[h].pc \in {"listReleases", "sendMessage", "readLog"}
                /\ (Awaits(h, "readLog") /\ handlers'[h].pc = "writeLog") =>
                       LET entry == handlers'[h].toWrite[Len(handlers'[h].toWrite)]
                       IN  /\ entry.groupId = groupId
                           /\ entry.groupName = handlers[h].groupName
                           /\ entry.groupName \in {Subject(groupId), groupId}
                           /\ entry.senderName = handlers[h].senderName
                           /\ entry.senderName \in {Notify, LocalPart(senderId)} ]_vars

\* both lookups failed for a message of group 2 and the message went all the
\* way: its entry in the log file has the group id as group name and "8",
\* the local part of 8@s.whatsapp.net, as sender name
C34_Witness ==
    /\ logFile.file = "array"
    /\ \E i \in 1..Len(logFile.entries) :
           /\ logFile.entries[i].groupId = G2
           /\ logFile.entries[i].groupName = G2
           /\ logFile.entries[i].senderId = Sender2
           /\ logFile.entries[i].senderName = <<"8">>

\* C35: the release chosen and the add request. When the listing gives a
\* non-empty list, the dispatcher takes its first entry, whatever the order
\* of the list, and requests the add for that release (the last segment of
\* its name) with a tester list of exactly the one parsed email, under the
\* app id the config has for the parsed platform: androidAppId for android,
\* iosAppId for ios.
C35_FirstReleaseOneEmail ==
    [][ \A h \in Handlers :
            (Awaits(h, "listReleases") /\ handlers'[h].pc = "addTesters") =>
                LET releases == handlers'[h].listed.releases
                    request == RequestOf(h)
                IN  /\ releases # <<>>
                    /\ handlers'[h].release = releases[1]
                    /\ handlers'[h].addRequest.releaseId = AfterLast(releases[1].name, "/")
                    /\ handlers'[h].addRequest.emails = <<request.email>>
                    /\ Len(handlers'[h].addRequest.emails) = 1
                    /\ request.platform \in {Android, Ios}
                    /\ request.platform = Android =>
                           handlers'[h].addRequest.appId = config.firebase.androidAppId
                    /\ request.platform = Ios =>
                           handlers'[h].addRequest.appId = config.firebase.iosAppId
                    /\ handlers'[h].adds = 1 ]_vars

\* the ios request of the extended text message: the list came as
\* <<R2, R1>> and the add goes to release r2 under the ios app id
C35_Witness ==
    \E h \in Handlers :
        /\ Awaits(h, "addTesters")
        /\ Msg(h).kind = "extendedTextMessage"
        /\ handlers[h].request.platform = Ios
        /\ handlers[h].listed.releases = <<R2, R1>>
        /\ handlers[h].addRequest.releaseId = <<"r","2">>
        /\ handlers[h].addRequest.appId = <<"1",":","i">>
        /\ Len(handlers[h].addRequest.emails) = 1

\* C36: no log entry is lost under overlapping batches. An entry that a
\* write has put in the day's log file stays in it: no later write, of the
\* same batch or of another one in flight, leaves the file without an entry
\* it held, so that when the batches have completed the file holds the entry
\* of every message whose write succeeded.
C36_NoLostEntries ==
    [][ \A i \in 1..Len(Readable(logFile)) :
            \E j \in 1..Len(Readable(logFile')) :
                logFile'.entries[j].messageId = logFile.entries[i].messageId ]_vars

\* C37: dispatch and replies are confined to monitored groups. A callback
\* that has parsed, listed, requested an add or replied for a message stands
\* in a message that is not the bot's own, is of a group conversation and is
\* past the filter; the reply it made goes to the group id of that very
\* message; a message gets past the filter only by the step in which
\* shouldMonitorGroup returned true for its group id and the group name
\* looked up for it; and a listing, an
\* add-tester request or a reply is only ever started for the message the
\* callback stands in, past the filter.
C37_ConfinedToMonitored ==
    /\ [](\A h \in Handlers :
              (handlers[h].parses > 0 \/ handlers[h].adds > 0 \/ Dispatched(h)) =>
                  /\ Accepted(h)
                  /\ ~Msg(h).fromMe
                  /\ IsGroup(Msg(h))
                  /\ handlers[h].reply # NoReply =>
                         handlers[h].reply.to = Msg(h).remoteJid)
    /\ [][ \A h \in Handlers :
               /\ (~Accepted(h) /\ Accepted(h)') =>
                      /\ FilterStep(h)
                      /\ handlers'[h].batch = handlers[h].batch
                      /\ handlers'[h].k = handlers[h].k
                      /\ lastFilter'.called /\ lastFilter'.ret
                      /\ lastFilter'.groupId = Msg(h).remoteJid
                      /\ shouldMonitorGroup(config, Msg(h).remoteJid,
                                            handlers'[h].groupName).ret
               /\ (\/ handlers'[h].lists > handlers[h].lists
                   \/ handlers'[h].adds > handlers[h].adds
                   \/ handlers'[h].replies > handlers[h].replies) =>
                      /\ Accepted(h)
                      /\ handlers'[h].batch = handlers[h].batch
                      /\ handlers'[h].k = handlers[h].k ]_vars

\* a batch of a message of the group the filter rejects and a request of
\* the monitored group: the first was filtered out with nothing listed,
\* added or replied, the reply for the second is on its way to group 1
C37_Witness ==
    \E h \in Handlers :
        /\ Replied(h)
        /\ handlers[h].batch = <<OtherGroupMessage, RequestMessage>>
        /\ handlers[h].k = 2
        /\ filteredGroups = {G2}
        /\ handlers[h].lists = 1 /\ handlers[h].adds = 1 /\ handlers[h].replies = 1
        /\ handlers[h].reply.to = G1
        /\ handlers[h].reply.prefix = CheckMark

\* C38: the result of addTesterToDistribution. The step that hands the
\* callback a result hands it success = true only from the add-tester
\* request, settled without error, the one request made for the first
\* release of the one non-empty listing, under a configured app id, the
\* service initialized when the request was dispatched; a service not
\* initialized, a missing app id, an empty or failed listing and a failed
\* add-tester request each give a result with success = false; and the
\* dispatcher never throws: from each of its awaits the callback comes back
\* in the same message, with the next call or with a result to reply with.
C38_SuccessOnlyWhenAdded ==
    [][ \A h \in Handlers :
            /\ (handlers[h].result = NoResult /\ handlers'[h].result # NoResult) =>
                   /\ handlers'[h].result.success \in BOOLEAN
                   /\ handlers'[h].pc = "sendMessage"
                   /\ handlers'[h].result.success =>
                          /\ Awaits(h, "addTesters")
                          /\ ~handlers'[h].added.failed
                          /\ handlers'[h].lists = 1 /\ handlers'[h].adds = 1
                          /\ handlers[h].listed.releases # <<>>
                          /\ ~handlers[h].listed.failed
                          /\ handlers[h].addRequest.releaseId =
                                 AfterLast(handlers[h].listed.releases[1].name, "/")
                          /\ Truthy(handlers[h].addRequest.appId)
                   /\ (Awaits(h, "onWhatsApp")
                         /\ (~firebaseApp \/ ~Truthy(AppId(handlers'[h].request.platform)))) =>
                          ~handlers'[h].result.success
                   /\ (Awaits(h, "listReleases")
                         /\ (handlers'[h].listed.failed \/ handlers'[h].listed.releases = <<>>)) =>
                          ~handlers'[h].result.success
                   /\ (Awaits(h, "addTesters") /\ handlers'[h].added.failed) =>
                          ~handlers'[h].result.success
            /\ (Awaits(h, "onWhatsApp") /\ handlers'[h].pc = "listReleases") =>
                   /\ firebaseApp
                   /\ Truthy(AppId(handlers'[h].request.platform))
            /\ ((Awaits(h, "listReleases") \/ Awaits(h, "addTesters"))
                  /\ handlers'[h] # handlers[h]) =>
                   /\ handlers'[h].pc \in {"addTesters", "sendMessage"}
                   /\ handlers'[h].batch = handlers[h].batch
                   /\ handlers'[h].k = handlers[h].k
                   /\ handlers'[h].pc = "sendMessage" <=> handlers'[h].result # NoResult ]_vars

\* the ios request answered with success: the service initialized, the ios
\* app id in the config, one listing that gave releases, one add-tester
\* request that settled without error
C38_Witness ==
    \E h \in Handlers :
        /\ Replied(h)
        /\ handlers[h].result.success
        /\ handlers[h].request.platform = Ios
        /\ firebaseApp
        /\ Truthy(config.firebase.iosAppId)
        /\ handlers[h].lists = 1 /\ handlers[h].adds = 1
        /\ handlers[h].listed.releases = <<R2, R1>>
        /\ ~handlers[h].added.failed

----------------------------------------------------------------------------
(* Claims about the config file of a run on defaults and about the *)
(* connection attempts *)

\* C39: a run on the defaults of a malformed config file never writes the
\* file. While the file is malformed the config in memory, once loaded, is
\* the default config with no target groups, no write of the config is
\* pending, no call of the filter memoizes an id or asks for a save, and no
\* step (a message, a settling write, a reconnect with its reload) changes
\* the file: it stays malformed.
C39_MalformedFileUntouched ==
    /\ [](configFile = FileMalformed =>
              /\ pendingWrites = <<>>
              /\ memoized = {}
              /\ ConfigLoaded => config = DefaultConfig)
    /\ [][ configFile = FileMalformed =>
               /\ configFile' = FileMalformed
               /\ lastFilter' # lastFilter =>
                      /\ lastFilter'.ret
                      /\ lastFilter'.saved = 0
                      /\ lastFilter'.after = DefaultConfig ]_vars

\* on a malformed file the bot has reconnected and reloaded, the filter has
\* accepted a message on the defaults and its entry is in the day's log
C39_Witness ==
    /\ configFile = FileMalformed
    /\ config = DefaultConfig
    /\ reconnects = 1
    /\ boot = "running"
    /\ lastFilter.called /\ lastFilter.ret
    /\ logFile.file = "array"
    /\ pendingWrites = <<>>

\* the startWhatsAppBot calls made so far: the one of the main entry and
\* the ones made by the timer
Attempts == 1 + reconnects

\* C40: connection attempts are driven by close events only. The attempts
\* started never exceed 1 plus the closes that were no logout: each such
\* close has its one timer, pending or fired into one attempt; an attempt
\* after the first starts only by the firing of that timer, which counts it;
\* and once an attempt has failed during setup (the first one or a
\* reconnect) nothing is retried or scheduled: no timer, no further attempt,
\* no further close.
C40_AttemptsDrivenByCloses ==
    /\ [](/\ Attempts <= 1 + closes
          /\ closes = reconnects + (IF timer THEN 1 ELSE 0))
    /\ [][ (boot' = "loadConfig" /\ boot # "loadConfig") =>
               /\ timer /\ ~timer'
               /\ Attempts' = Attempts + 1
               /\ Attempts' <= 1 + closes
               /\ closes' = closes ]_vars
    /\ [][ Attempts' # Attempts => boot' = "loadConfig" ]_vars
    /\ [][ boot = "failed" =>
               /\ boot' = "failed"
               /\ ~timer /\ ~timer'
               /\ Attempts' = Attempts
               /\ closes' = closes
               /\ connection' = connection ]_vars

\* the reconnect attempt made after a close that was no logout has failed
\* during setup: two attempts, one such close, nothing pending
C40_Witness ==
    /\ boot = "failed"
    /\ Attempts = 2
    /\ closes = 1
    /\ connection = "close"
    /\ ~timer

----------------------------------------------------------------------------
(* The parser called directly, on composed texts *)

MaxPad == 1

SpecExamples == {JohnDoeAndroid, JohnIosUpper, NotAnEmailAndroid, ABWindows, ABAndroid}

LocalParts == { <<"a">>, <<"J",".","d">>, <<"a","%","+","_","-","1">>, <<>>,
                <<"a"," ","b">>, <<"a","@","b">>, <<"!","a">> }
AtSigns == { <<"@">>, <<>> }
DomainParts == { <<"b">>, <<"X","-","1",".","y">>, <<>>, <<"b","_">> }
LastLabels == { <<".","c","o">>, <<".","C","O","M">>, <<".","c">>, <<".","c","1">>, <<>> }
Separators == { <<"-">>, <<>>, <<"_">> }
PlatformParts == { Android, <<"A","n","D","R","O","I","D">>, Ios, <<"i","O","S">>,
                   <<"w","i","n","d","o","w","s">>, <<>>,
                   <<"i","o","s","x">>, <<"i","o","s","\n","x">> }
Pads == SeqsUpTo({" ", "\n"}, MaxPad)

Composed ==
    { l \o a \o d \o t \o sp \o pf :
        l \in LocalParts, a \in AtSigns, d \in DomainParts, t \in LastLabels,
        sp \in Separators, pf \in PlatformParts }

ParseInputs ==
    { p1 \o body \o p2 : p1 \in Pads, p2 \in Pads, body \in Composed \cup SpecExamples }

InitParse ==
    /\ input \in ParseInputs
    /\ parsed = NotParsed
    /\ config = DefaultConfig
    /\ configFile = DefaultConfig
    /\ pendingWrites = <<>>
    /\ lastFilter = NoCall
    /\ memoized = {}
    /\ BotIdle

Parse ==
    /\ ~parsed.done
    /\ parsed' = [ done |-> TRUE, result |-> parseDistributionRequest(input) ]
    /\ UNCHANGED <<input, cfgVars, botVars, msgVars>>

NextParse == Parse

SpecParse == InitParse /\ [][NextParse]_vars

\* the format of the claim, read off a trimmed text: the text ends in "-"
\* and a platform word in any letter case, and what precedes is an email
\* address: one "@", a non-empty local part of letters, digits and . _ % + -,
\* a domain of letters, digits, "." and "-" that has something before its
\* last ".", and a last label of two or more letters
EndsWith(t, w) ==
    /\ Len(t) >= Len(w)
    /\ ToLowerCase(SubSeq(t, Len(t) - Len(w) + 1, Len(t))) = w

DropLast(t, n) == SubSeq(t, 1, Len(t) - n)

ValidEmail(e) ==
    /\ Cardinality(At(e, "@")) = 1
    /\ LET a == CHOOSE i \in At(e, "@") : TRUE
           local == SubSeq(e, 1, a - 1)
           domain == SubSeq(e, a + 1, Len(e))
       IN  /\ local # <<>>
           /\ \A i \in 1..Len(local) :
                  local[i] \in Letters \cup Digits \cup {".", "_", "%", "+", "-"}
           /\ \A i \in 1..Len(domain) :
                  domain[i] \in Letters \cup Digits \cup {".", "-"}
           /\ At(domain, ".") # {}
           /\ LET dot == CHOOSE i \in At(domain, ".") :
                             \A j \in At(domain, ".") : j <= i
              IN  /\ dot > 1
                  /\ Len(domain) - dot >= 2
                  /\ \A i \in (dot + 1)..Len(domain) : domain[i] \in Letters

RequestForm(t) ==
    \E w \in {Android, Ios} :
        /\ EndsWith(t, <<"-">> \o w)
        /\ ValidEmail(DropLast(t, Len(w) + 1))

Parsed(text) == input = text /\ parsed.done

\* C10: the parser matches exactly the texts that, once trimmed, are
\* <email>-<platform> as a whole, platform being android or ios in any letter
\* case; "john.doe@company.com-android" and "JOHN@X.COM-IOS" match,
\* "not-an-email-android" and "a@b.com-windows" do not.
C10_AcceptsExactlyRequests ==
    parsed.done =>
        /\ parsed.result.matched = RequestForm(Trim(input))
        /\ input \in {JohnDoeAndroid, JohnIosUpper} => parsed.result.matched
        /\ input \in {NotAnEmailAndroid, ABWindows} => ~parsed.result.matched
        /\ input = JohnDoeAndroid =>
               parsed.result.email = JohnDoeEmail /\ parsed.result.platform = Android
        /\ input = JohnIosUpper =>
               parsed.result.email = JohnXEmail /\ parsed.result.platform = Ios

C10_Witness ==
    /\ Parsed(<<" ">> \o JohnIosUpper \o <<"\n">>)
    /\ parsed.result.matched
    /\ parsed.result.email = JohnXEmail

C10_WitnessRejected == Parsed(ABWindows) /\ ~parsed.result.matched

UpperOf == [c \in LowerLetters |->
               UpperCase[CHOOSE i \in 1..Len(LowerCase) : LowerCase[i] = c]]

ToUpperCase(s) == [i \in 1..Len(s) |-> IF s[i] \in LowerLetters THEN UpperOf[s[i]] ELSE s[i]]

Padded(s) == <<" ", "\n">> \o s \o <<"\t">>

MixedCaseRequest ==
    <<" ","J",".","d","@","X","-","1",".","y",".","C","O","M","-",
      "A","n","D","R","O","I","D">>

\* C11: a match gives the email and the platform in lower case, the platform
\* being android or ios; the result of a text is the result of the text
\* trimmed, of the text with whitespace put around it, of the text in upper
\* case and of the text in lower case; and parsing email-platform of a
\* result gives that result again.
C11_NormalisedResult ==
    parsed.done =>
        LET r == parsed.result
        IN  /\ parseDistributionRequest(Trim(input)) = r
            /\ parseDistributionRequest(Padded(input)) = r
            /\ parseDistributionRequest(ToUpperCase(input)) = r
            /\ parseDistributionRequest(ToLowerCase(input)) = r
            /\ r.matched =>
                   /\ r.email = ToLowerCase(r.email)
                   /\ r.platform \in {Android, Ios}
                   /\ parseDistributionRequest(r.email \o <<"-">> \o r.platform) = r

C11_Witness ==
    /\ Parsed(MixedCaseRequest)
    /\ parsed.result.matched
    /\ parsed.result.email = <<"j",".","d","@","x","-","1",".","y",".","c","o","m">>
    /\ parsed.result.platform = Android

====
